---- MODULE Spec2Model ----
(***************************************************************************)
(* Model of the deployment orchestrator of the engine:                     *)
(*   src/src/cloud_provider/service.rs  (dispatch and pipelines)           *)
(*   src/src/models/database.rs         (database mode)                    *)
(* Every collaborator call (template rendering, kubectl, Helm, Terraform)  *)
(* is one step whose outcome is chosen nondeterministically; the calls     *)
(* made by the running pipeline are recorded, in order, in `trace`.        *)
(***************************************************************************)
EXTENDS Integers, Sequences, FiniteSets, TLC

VARIABLES svc, op, pc, trace, hooks, result, tfconfig, args, value

vars == <<svc, op, pc, trace, hooks, result, tfconfig, args, value>>

(***************************************************************************)
(* Bounds and input sets                                                   *)
(***************************************************************************)
\* largest number of pods returned by one listing
MaxPods == 2

\* largest replicas_count asked of scale_down_database
MaxReplicas == 2

\* largest disk size (requested, or bound to a volume), in GiB
MaxDiskSize == 2

\* most volumes a StatefulSet is given
MaxVolumes == 2

ServiceIds == {"z1", "z2"}
ServiceNames == {"n1"}
\* the failures a collaborator can report (CommandError values)
CmdErrors == {"e1", "e2"}
\* the failures a hook or a service method can report (EngineError values)
HookErrors == {"h1", "h2"}
\* database_target_id values found in database-tf-config.json
TargetIds == {"t1", "t2"}

Action == {"Create", "Pause", "Delete", "Nothing"}

ServiceType == {"Application", "Database", "Router"}

PodPhases == {"Pending", "Running", "Failed"}

\* Managed {} / Container {}: the type-level mode tag of a database
DatabaseModeTags == {"Managed", "Container"}

\* service::DatabaseType: the engine of a database
DatabaseType == {"PostgreSQL", "MongoDB", "MySQL", "Redis"}

KubeNames == {"k1"}

Services ==
    { s \in [id : ServiceIds, name : ServiceNames, kube_name : KubeNames,
             stype : ServiceType, mode : DatabaseModeTags \cup {"NA"},
             db_type : DatabaseType \cup {"NA"}, publicly_accessible : BOOLEAN,
             action : Action] :
        /\ (s.stype = "Database") <=> (s.mode \in DatabaseModeTags)
        /\ (s.stype = "Database") <=> (s.db_type \in DatabaseType) }

\* no argument besides the service; nothing returned besides Ok / Err
NoArgs == [none |-> TRUE]
NoValue == [none |-> TRUE]

(***************************************************************************)
(* Results and recorded calls                                              *)
(***************************************************************************)
NoResult == [st |-> "none", ctor |-> "none", cause |-> "none"]
OkResult == [st |-> "ok", ctor |-> "none", cause |-> "none"]
\* an EngineError built by constructor `ctor` around the failure `cause`
ErrResult(ctor, cause) == [st |-> "err", ctor |-> ctor, cause |-> cause]

\* one collaborator call: name, two arguments (tuples), outcome
Call(c, a, b, out) == [call |-> c, a |-> a, b |-> b, out |-> out]

Outcomes == {"ok"} \cup CmdErrors

(***************************************************************************)
(* Service accessors                                                       *)
(***************************************************************************)
DirRoot(s) ==
    CASE s.stype = "Application" -> "applications"
      [] s.stype = "Database" -> "databases"
      [] s.stype = "Router" -> "routers"

workspace_directory(s) == <<"workspace_root", "execution_id", DirRoot(s), s.name>>

external_svc_dir(s) == workspace_directory(s) \o <<"external-name-svc">>

database_tf_config_file(s) == workspace_directory(s) \o <<"database-tf-config.json">>

helm_release_name(s) == <<"lib_directory_name", "-", s.id>>

helm_chart_dir(s) == <<"lib_root", "common", "services", "lib_directory_name">>

helm_chart_values_dir(s) == <<"lib_root", "cloud", "chart_values", "lib_directory_name">>

helm_chart_external_name_service_dir(s) == <<"lib_root", "common", "charts", "external-name-svc">>

terraform_common_resource_dir_path(s) == <<"lib_root", "cloud", "services", "common">>

terraform_resource_dir_path(s) == <<"lib_root", "cloud", "services", "lib_directory_name">>

selector(s) == <<"selector", s.id>>

\* environment.namespace()
namespace == <<"namespace">>

get_tfstate_name(s) == <<"tfstate-default-", s.id>>

\* a mode tag read the wrong way round
is_managed_inverted(mode) ==
    CASE mode = "Managed" -> FALSE
      [] mode = "Container" -> TRUE

is_managed(mode) ==
    CASE mode = "Managed" -> TRUE
      [] mode = "Container" -> FALSE

is_container(mode) == ~is_managed(mode)

is_managed_service(s) == is_managed(s.mode)

(***************************************************************************)
(* Action dispatch                                                         *)
(***************************************************************************)
HookOutcomes == {"ok"} \cup HookErrors

HookResult(r) == IF r = "ok" THEN OkResult ELSE ErrResult("hook", r)

\* run hook h (if any) once, with outcome r, and return its result
Dispatch(name, h, r) ==
    /\ op' = name
    /\ pc' = "done"
    /\ hooks' = IF h = "none" THEN <<>> ELSE <<[hook |-> h, out |-> r]>>
    /\ result' = IF h = "none" THEN OkResult ELSE HookResult(r)
    /\ UNCHANGED <<svc, trace, tfconfig, args, value>>

StatelessService_exec_action ==
    /\ pc = "idle"
    /\ svc.stype \in {"Application", "Router"}
    /\ \E r \in HookOutcomes :
         Dispatch("StatelessService::exec_action",
                  CASE svc.action = "Create" -> "on_create"
                    [] svc.action = "Delete" -> "on_delete"
                    [] svc.action = "Pause" -> "on_pause"
                    [] svc.action = "Nothing" -> "none",
                  r)

StatelessService_exec_check_action ==
    /\ pc = "idle"
    /\ svc.stype \in {"Application", "Router"}
    /\ \E r \in HookOutcomes :
         Dispatch("StatelessService::exec_check_action",
                  CASE svc.action = "Create" -> "on_create_check"
                    [] svc.action = "Delete" -> "on_delete_check"
                    [] svc.action = "Pause" -> "on_pause_check"
                    [] svc.action = "Nothing" -> "none",
                  r)

\* a dispatch that runs on_pause for Delete and on_delete for Pause
DatabaseService_exec_action_swapped ==
    /\ pc = "idle"
    /\ svc.stype = "Database"
    /\ \E r \in HookOutcomes :
         Dispatch("DatabaseService::exec_action",
                  CASE svc.action = "Create" -> "on_create"
                    [] svc.action = "Delete" -> "on_pause"
                    [] svc.action = "Pause" -> "on_delete"
                    [] svc.action = "Nothing" -> "none",
                  r)

DatabaseService_exec_action ==
    /\ pc = "idle"
    /\ svc.stype = "Database"
    /\ \E r \in HookOutcomes :
         Dispatch("DatabaseService::exec_action",
                  CASE svc.action = "Create" -> "on_create"
                    [] svc.action = "Delete" -> "on_delete"
                    [] svc.action = "Pause" -> "on_pause"
                    [] svc.action = "Nothing" -> "none",
                  r)

DatabaseService_exec_check_action ==
    /\ pc = "idle"
    /\ svc.stype = "Database"
    /\ \E r \in HookOutcomes :
         Dispatch("DatabaseService::exec_check_action",
                  CASE svc.action = "Create" -> "on_create_check"
                    [] svc.action = "Delete" -> "on_delete_check"
                    [] svc.action = "Pause" -> "on_pause_check"
                    [] svc.action = "Nothing" -> "none",
                  r)

(***************************************************************************)
(* Pipeline steps                                                          *)
(***************************************************************************)
\* begin operation `name` at its first step
Begin(name, first) ==
    /\ pc = "idle"
    /\ op' = name
    /\ pc' = first
    /\ UNCHANGED <<svc, trace, hooks, result, tfconfig, args, value>>

\* a service method whose EngineError is propagated unchanged by `?`
\* (tera_context, get_kubeconfig_file_path)
Propagating(from, c, next) ==
    /\ pc = from
    /\ \E r \in HookOutcomes :
         /\ trace' = Append(trace, Call(c, <<>>, <<>>, r))
         /\ IF r = "ok"
              THEN pc' = next /\ result' = result
              ELSE pc' = "done" /\ result' = ErrResult("propagated", r)
    /\ UNCHANGED <<svc, op, hooks, tfconfig, args, value>>

\* a collaborator call c(a, b) whose failure is wrapped by constructor ctor
Step(from, c, a, b, ctor, next) ==
    /\ pc = from
    /\ \E out \in Outcomes :
         /\ trace' = Append(trace, Call(c, a, b, out))
         /\ IF out = "ok"
              THEN pc' = next /\ result' = result
              ELSE pc' = "done" /\ result' = ErrResult(ctor, out)
    /\ UNCHANGED <<svc, op, hooks, tfconfig, args, value>>

(***************************************************************************)
(* delete_pending_service                                                  *)
(***************************************************************************)
PodLists == UNION { [1..n -> PodPhases] : n \in 0..MaxPods }

RECURSIVE DeletePendingCalls(_, _, _, _)
\* the delete calls issued for pods[i..], the deletion of pod failAt failing with e
DeletePendingCalls(pods, i, failAt, e) ==
    IF i > Len(pods) THEN <<>>
    ELSE IF pods[i] = "Pending"
         THEN IF i = failAt
                THEN <<Call("kubectl_exec_delete_pod", <<i>>, <<pods[i]>>, e)>>
                ELSE <<Call("kubectl_exec_delete_pod", <<i>>, <<pods[i]>>, "ok")>>
                       \o DeletePendingCalls(pods, i + 1, failAt, e)
         ELSE DeletePendingCalls(pods, i + 1, failAt, e)

\* a cleanup that deletes every listed pod, whatever its phase
delete_pending_service_any_phase(from, next) ==
    /\ pc = from
    /\ \E pods \in PodLists :
         /\ trace' = Append(trace, Call("kubectl_exec_get_pods", selector(svc), pods, "ok"))
                       \o [i \in 1..Len(pods) |->
                             Call("kubectl_exec_delete_pod", <<i>>, <<pods[i]>>, "ok")]
         /\ pc' = next
         /\ result' = result
    /\ UNCHANGED <<svc, op, hooks, tfconfig, args, value>>

\* lists the pods of the selector, deletes the Pending ones in order, stops at
\* the first failure
delete_pending_service(from, next) ==
    /\ pc = from
    /\ \/ \E e \in CmdErrors :
            /\ trace' = Append(trace, Call("kubectl_exec_get_pods", selector(svc), <<>>, e))
            /\ pc' = "done"
            /\ result' = ErrResult("new_k8s_service_issue", e)
       \/ \E pods \in PodLists, failAt \in 0..MaxPods, e \in CmdErrors :
            /\ failAt <= Len(pods)
            /\ failAt > 0 => pods[failAt] = "Pending"
            /\ trace' = Append(trace, Call("kubectl_exec_get_pods", selector(svc), pods, "ok"))
                          \o DeletePendingCalls(pods, 1, failAt, e)
            /\ IF failAt = 0
                 THEN pc' = next /\ result' = result
                 ELSE pc' = "done" /\ result' = ErrResult("new_k8s_service_issue", e)
    /\ UNCHANGED <<svc, op, hooks, tfconfig, args, value>>

\* outcomes of kubectl_exec_is_pod_ready_with_retry: Result<Option<bool>, CommandError>
PollOutcomes == {"Some(true)", "Some(false)", "None"} \cup CmdErrors

(***************************************************************************)
(* deploy_stateless_service                                                *)
(***************************************************************************)
deploy_stateless_service == Begin("deploy_stateless_service", "sl_tera_context")

sl_tera_context == Propagating("sl_tera_context", "tera_context", "sl_render")

\* a render step that goes on to the Helm upgrade, skipping the namespace
sl_render_skipping_namespace ==
    Step("sl_render", "generate_and_copy_all_files_into_dir",
         helm_chart_dir(svc), workspace_directory(svc),
         "new_cannot_copy_files_from_one_directory_to_another", "sl_helm_upgrade")

\* a render step whose failure is reported without its cause
sl_render_dropping_cause ==
    /\ pc = "sl_render"
    /\ \E out \in Outcomes :
         /\ trace' = Append(trace, Call("generate_and_copy_all_files_into_dir",
                                        helm_chart_dir(svc), workspace_directory(svc), out))
         /\ IF out = "ok"
              THEN pc' = "sl_kubeconfig" /\ result' = result
              ELSE /\ pc' = "done"
                   /\ result' = ErrResult("new_cannot_copy_files_from_one_directory_to_another",
                                          "none")
    /\ UNCHANGED <<svc, op, hooks, tfconfig, args, value>>

sl_render ==
    Step("sl_render", "generate_and_copy_all_files_into_dir",
         helm_chart_dir(svc), workspace_directory(svc),
         "new_cannot_copy_files_from_one_directory_to_another", "sl_kubeconfig")

sl_kubeconfig == Propagating("sl_kubeconfig", "get_kubeconfig_file_path", "sl_namespace")

sl_namespace ==
    Step("sl_namespace", "kubectl_exec_create_namespace", namespace, <<>>,
         "new_k8s_create_namespace", "sl_helm_new")

sl_helm_new ==
    Step("sl_helm_new", "Helm::new", <<>>, <<>>, "helm::to_engine_error", "sl_helm_upgrade")

sl_helm_upgrade ==
    Step("sl_helm_upgrade", "helm.upgrade", helm_release_name(svc), workspace_directory(svc),
         "helm::to_engine_error", "sl_delete_pending")

\* a cleanup step whose failure is not returned
sl_delete_pending_best_effort ==
    /\ pc = "sl_delete_pending"
    /\ \/ \E e \in CmdErrors :
            trace' = Append(trace, Call("kubectl_exec_get_pods", selector(svc), <<>>, e))
       \/ \E pods \in PodLists, failAt \in 0..MaxPods, e \in CmdErrors :
            /\ failAt <= Len(pods)
            /\ failAt > 0 => pods[failAt] = "Pending"
            /\ trace' = Append(trace, Call("kubectl_exec_get_pods", selector(svc), pods, "ok"))
                          \o DeletePendingCalls(pods, 1, failAt, e)
    /\ pc' = "sl_poll"
    /\ result' = result
    /\ UNCHANGED <<svc, op, hooks, tfconfig, args, value>>

sl_delete_pending == delete_pending_service("sl_delete_pending", "sl_poll")

\* only an Err of the poll is turned into an error (map_err + ?)
sl_poll ==
    /\ pc = "sl_poll"
    /\ \E out \in PollOutcomes :
         /\ trace' = Append(trace, Call("kubectl_exec_is_pod_ready_with_retry",
                                        selector(svc), <<>>, out))
         /\ pc' = "done"
         /\ result' = IF out \in CmdErrors
                        THEN ErrResult("new_k8s_pod_not_ready", out)
                        ELSE OkResult
    /\ UNCHANGED <<svc, op, hooks, tfconfig, args, value>>

(***************************************************************************)
(* deploy_stateful_service                                                 *)
(***************************************************************************)
deploy_stateful_service ==
    /\ svc.stype = "Database"
    /\ Begin("deploy_stateful_service", "sf_tera_context")

sf_tera_context == Propagating("sf_tera_context", "tera_context", "sf_kubeconfig")

sf_kubeconfig == Propagating("sf_kubeconfig", "get_kubeconfig_file_path", "sf_namespace")

sf_namespace ==
    Step("sf_namespace", "kubectl_exec_create_namespace", namespace, <<>>,
         "new_k8s_create_namespace", "sf_helm_new")

\* Helm::new, then the branch on is_managed_service()
sf_helm_new ==
    Step("sf_helm_new", "Helm::new", <<>>, <<>>, "helm::to_engine_error",
         IF is_managed_service(svc) THEN "mg_tera_context" ELSE "ct_tera_context")

\* ---- managed branch
mg_tera_context == Propagating("mg_tera_context", "tera_context", "mg_render_common")

mg_render_common ==
    Step("mg_render_common", "generate_and_copy_all_files_into_dir",
         terraform_common_resource_dir_path(svc), workspace_directory(svc),
         "new_cannot_copy_files_from_one_directory_to_another", "mg_render_resource")

mg_render_resource ==
    Step("mg_render_resource", "generate_and_copy_all_files_into_dir",
         terraform_resource_dir_path(svc), workspace_directory(svc),
         "new_cannot_copy_files_from_one_directory_to_another", "mg_render_external")

mg_render_external ==
    Step("mg_render_external", "generate_and_copy_all_files_into_dir",
         helm_chart_external_name_service_dir(svc), external_svc_dir(svc),
         "new_cannot_copy_files_from_one_directory_to_another", "mg_terraform")

\* a Terraform step whose failure is not returned
mg_terraform_ignoring_failure ==
    /\ pc = "mg_terraform"
    /\ \E out \in Outcomes :
         /\ trace' = Append(trace, Call("terraform_init_validate_plan_apply",
                                        workspace_directory(svc), <<>>, out))
         /\ pc' = "mg_config"
         /\ result' = result
    /\ UNCHANGED <<svc, op, hooks, tfconfig, args, value>>

mg_terraform ==
    Step("mg_terraform", "terraform_init_validate_plan_apply",
         workspace_directory(svc), <<>>,
         "new_terraform_error_while_executing_pipeline", "mg_config")

\* what can be found at {workspace}/database-tf-config.json after the apply
ConfigFiles ==
    {[state |-> "absent", target_id |-> "none"],
     [state |-> "unreadable", target_id |-> "none"],
     [state |-> "not_parsable", target_id |-> "none"]}
      \cup {[state |-> "parsable", target_id |-> t] : t \in TargetIds}

\* a reader that reports a file it cannot parse as missing
get_database_terraform_config_lenient(file) ==
    CASE file.state \in {"absent", "unreadable", "not_parsable"} -> "FileDoesntExist"
      [] file.state = "parsable" -> "Ok"

\* File::open fails -> FileDoesntExist; from_reader fails -> FileCannotBeParsed
get_database_terraform_config(file) ==
    CASE file.state \in {"absent", "unreadable"} -> "FileDoesntExist"
      [] file.state = "not_parsable" -> "FileCannotBeParsed"
      [] file.state = "parsable" -> "Ok"

\* the match on get_database_terraform_config(..)
mg_config ==
    /\ pc = "mg_config"
    /\ \E file \in ConfigFiles :
         LET r == get_database_terraform_config(file) IN
         /\ tfconfig' = file
         /\ trace' = Append(trace, Call("get_database_terraform_config",
                                        database_tf_config_file(svc), <<file.state>>, r))
         /\ CASE r = "Ok" -> pc' = "mg_helm_upgrade" /\ result' = result
              [] r = "FileDoesntExist" -> pc' = "done" /\ result' = OkResult
              [] r = "FileCannotBeParsed" ->
                   /\ pc' = "done"
                   /\ result' = ErrResult("new_terraform_database_config_mismatch",
                                          "FileCannotBeParsed")
    /\ UNCHANGED <<svc, op, hooks, args, value>>

\* helm upgrade of the ExternalName chart; the function then returns Ok(())
mg_helm_upgrade ==
    /\ pc = "mg_helm_upgrade"
    /\ \E out \in Outcomes :
         /\ trace' = Append(trace, Call("helm.upgrade",
                                        <<tfconfig.target_id, "-externalname">>,
                                        external_svc_dir(svc), out))
         /\ pc' = "done"
         /\ result' = IF out = "ok" THEN OkResult
                      ELSE ErrResult("helm::to_engine_error", out)
    /\ UNCHANGED <<svc, op, hooks, tfconfig, args, value>>

\* ---- container branch
ct_tera_context == Propagating("ct_tera_context", "tera_context", "ct_kubeconfig")

ct_kubeconfig == Propagating("ct_kubeconfig", "get_kubeconfig_file_path", "ct_render_chart")

ct_render_chart ==
    Step("ct_render_chart", "generate_and_copy_all_files_into_dir",
         helm_chart_dir(svc), workspace_directory(svc),
         "new_cannot_copy_files_from_one_directory_to_another", "ct_render_values")

\* a render of the value overrides that goes on without ensuring the namespace
ct_render_values_skipping_namespace ==
    Step("ct_render_values", "generate_and_copy_all_files_into_dir",
         helm_chart_values_dir(svc), workspace_directory(svc),
         "new_cannot_copy_files_from_one_directory_to_another", "ct_helm_new")

ct_render_values ==
    Step("ct_render_values", "generate_and_copy_all_files_into_dir",
         helm_chart_values_dir(svc), workspace_directory(svc),
         "new_cannot_copy_files_from_one_directory_to_another", "ct_namespace")

ct_namespace ==
    Step("ct_namespace", "kubectl_exec_create_namespace", namespace, <<>>,
         "new_k8s_create_namespace", "ct_helm_new")

ct_helm_new ==
    Step("ct_helm_new", "Helm::new", <<>>, <<>>, "helm::to_engine_error", "ct_helm_upgrade")

\* a Helm upgrade that is tried a second time when it fails
ct_helm_upgrade_retrying_once ==
    /\ pc = "ct_helm_upgrade"
    /\ \E out \in Outcomes :
         /\ trace' = Append(trace, Call("helm.upgrade", helm_release_name(svc),
                                        workspace_directory(svc), out))
         /\ IF out = "ok"
              THEN pc' = "ct_delete_pending" /\ result' = result
              ELSE IF trace[Len(trace)].call = "helm.upgrade"
                     THEN pc' = "done" /\ result' = ErrResult("helm::to_engine_error", out)
                     ELSE pc' = pc /\ result' = result
    /\ UNCHANGED <<svc, op, hooks, tfconfig, args, value>>

ct_helm_upgrade ==
    Step("ct_helm_upgrade", "helm.upgrade", helm_release_name(svc), workspace_directory(svc),
         "helm::to_engine_error", "ct_delete_pending")

ct_delete_pending == delete_pending_service("ct_delete_pending", "ct_poll")

\* a poll handled as deploy_stateless_service handles it
ct_poll_as_stateless ==
    /\ pc = "ct_poll"
    /\ \E out \in PollOutcomes :
         /\ trace' = Append(trace, Call("kubectl_exec_is_pod_ready_with_retry",
                                        selector(svc), <<>>, out))
         /\ pc' = "done"
         /\ result' = IF out \in CmdErrors
                        THEN ErrResult("new_k8s_pod_not_ready", out)
                        ELSE OkResult
    /\ UNCHANGED <<svc, op, hooks, tfconfig, args, value>>

\* success only for Ok(Some(true)); the poll's error is attached when it is an Err
ct_poll ==
    /\ pc = "ct_poll"
    /\ \E out \in PollOutcomes :
         /\ trace' = Append(trace, Call("kubectl_exec_is_pod_ready_with_retry",
                                        selector(svc), <<>>, out))
         /\ pc' = "done"
         /\ result' = IF out = "Some(true)" THEN OkResult
                      ELSE ErrResult("new_database_failed_to_start_after_several_retries",
                                     IF out \in CmdErrors THEN out ELSE "none")
    /\ UNCHANGED <<svc, op, hooks, tfconfig, args, value>>

(***************************************************************************)
(* helm_uninstall_release, delete_stateless_service, delete_stateful_service*)
(***************************************************************************)
delete_stateless_service == Begin("delete_stateless_service", "un_kubeconfig")

delete_stateful_service ==
    /\ svc.stype = "Database"
    /\ Begin("delete_stateful_service",
             IF is_managed_service(svc) THEN "dl_tera_context" ELSE "un_kubeconfig")

\* ---- helm_uninstall_release (delete_stateless_service and the container branch)
un_kubeconfig == Propagating("un_kubeconfig", "get_kubeconfig_file_path", "un_helm_new")

un_helm_new ==
    Step("un_helm_new", "Helm::new", <<>>, <<>>, "new_helm_error", "un_helm_uninstall")

\* an uninstall whose failure is swallowed
un_helm_uninstall_ignoring_failure ==
    /\ pc = "un_helm_uninstall"
    /\ \E out \in Outcomes :
         /\ trace' = Append(trace, Call("helm.uninstall", helm_release_name(svc),
                                        namespace, out))
         /\ pc' = "done"
         /\ result' = OkResult
    /\ UNCHANGED <<svc, op, hooks, tfconfig, args, value>>

un_helm_uninstall ==
    /\ pc = "un_helm_uninstall"
    /\ \E out \in Outcomes :
         /\ trace' = Append(trace, Call("helm.uninstall", helm_release_name(svc),
                                        namespace, out))
         /\ pc' = "done"
         /\ result' = IF out = "ok" THEN OkResult ELSE ErrResult("new_helm_error", out)
    /\ UNCHANGED <<svc, op, hooks, tfconfig, args, value>>

\* ---- managed branch of delete_stateful_service
dl_tera_context == Propagating("dl_tera_context", "tera_context", "dl_render_common")

dl_render_common ==
    Step("dl_render_common", "generate_and_copy_all_files_into_dir",
         terraform_common_resource_dir_path(svc), workspace_directory(svc),
         "new_cannot_copy_files_from_one_directory_to_another", "dl_render_resource")

dl_render_resource ==
    Step("dl_render_resource", "generate_and_copy_all_files_into_dir",
         terraform_resource_dir_path(svc), workspace_directory(svc),
         "new_cannot_copy_files_from_one_directory_to_another", "dl_render_external")

dl_render_external ==
    Step("dl_render_external", "generate_and_copy_all_files_into_dir",
         helm_chart_external_name_service_dir(svc), external_svc_dir(svc),
         "new_cannot_copy_files_from_one_directory_to_another", "dl_render_external_ws")

dl_render_external_ws ==
    Step("dl_render_external_ws", "generate_and_copy_all_files_into_dir",
         helm_chart_external_name_service_dir(svc), workspace_directory(svc),
         "new_cannot_copy_files_from_one_directory_to_another", "dl_terraform")

\* a destroy step that goes on to the secret deletion whatever its outcome
dl_terraform_then_secret_anyway ==
    /\ pc = "dl_terraform"
    /\ \E out \in Outcomes :
         /\ trace' = Append(trace, Call("terraform_init_validate_destroy",
                                        workspace_directory(svc), <<>>, out))
         /\ pc' = "dl_secret"
         /\ result' = result
    /\ UNCHANGED <<svc, op, hooks, tfconfig, args, value>>

dl_terraform ==
    Step("dl_terraform", "terraform_init_validate_destroy", workspace_directory(svc), <<>>,
         "new_terraform_error_while_executing_destroy_pipeline", "dl_secret")

\* a secret deletion whose failures are returned to the caller
dl_secret_failing ==
    /\ pc = "dl_secret"
    /\ \E o \in {"deleted", "absent", "kubectl_failed", "no_kubeconfig"} :
         /\ trace' =
              IF o = "no_kubeconfig"
                THEN Append(trace, Call("get_kubeconfig_file_path", <<>>, <<>>, "h1"))
                ELSE trace \o <<Call("get_kubeconfig_file_path", <<>>, <<>>, "ok"),
                                Call("kubectl_exec_delete_secret", get_tfstate_name(svc),
                                     namespace, o)>>
         /\ pc' = "done"
         /\ result' = IF o \in {"deleted", "absent"} THEN OkResult
                      ELSE ErrResult("propagated", o)
    /\ UNCHANGED <<svc, op, hooks, tfconfig, args, value>>

\* outcomes of delete_terraform_tfstate_secret's two calls
SecretOutcomes == {"deleted", "absent", "kubectl_failed", "no_kubeconfig"}

\* delete_terraform_tfstate_secret: both failures are discarded (`let _ =`);
\* delete_stateful_service then returns Ok(())
dl_secret ==
    /\ pc = "dl_secret"
    /\ \E o \in SecretOutcomes :
         /\ trace' =
              IF o = "no_kubeconfig"
                THEN Append(trace, Call("get_kubeconfig_file_path", <<>>, <<>>, "h1"))
                ELSE trace \o <<Call("get_kubeconfig_file_path", <<>>, <<>>, "ok"),
                                Call("kubectl_exec_delete_secret", get_tfstate_name(svc),
                                     namespace, o)>>
         /\ pc' = "done"
         /\ result' = OkResult
    /\ UNCHANGED <<svc, op, hooks, tfconfig, args, value>>

(***************************************************************************)
(* scale_down_database                                                     *)
(***************************************************************************)
HalfWord == 65536

\* `replicas_count as u32`: the value modulo 2^32, computed on 16-bit halves
as_u32(n) == (n % HalfWord) + HalfWord * ((n \div HalfWord) % HalfWord)

\* a scale-down that does not look at the mode
scale_down_database_always_scaling ==
    /\ pc = "idle"
    /\ svc.stype = "Database"
    /\ \E n \in 0..MaxReplicas :
         /\ args' = [replicas_count |-> n]
         /\ op' = "scale_down_database"
         /\ pc' = "sd_kubeconfig"
         /\ result' = result
    /\ UNCHANGED <<svc, trace, hooks, tfconfig, value>>

\* entry: a managed database returns Ok(()) at once
scale_down_database ==
    /\ pc = "idle"
    /\ svc.stype = "Database"
    /\ \E n \in 0..MaxReplicas :
         /\ args' = [replicas_count |-> n]
         /\ op' = "scale_down_database"
         /\ IF is_managed_service(svc)
              THEN pc' = "done" /\ result' = OkResult
              ELSE pc' = "sd_kubeconfig" /\ result' = result
    /\ UNCHANGED <<svc, trace, hooks, tfconfig, value>>

sd_kubeconfig == Propagating("sd_kubeconfig", "get_kubeconfig_file_path", "sd_scale")

\* kubectl_exec_scale_replicas_by_selector(.., Statefulset, "databaseId={id}", count)
sd_scale ==
    /\ pc = "sd_scale"
    /\ \E out \in Outcomes :
         /\ trace' = Append(trace, Call("kubectl_exec_scale_replicas_by_selector",
                                        <<"Statefulset", "databaseId=", svc.id>>,
                                        <<as_u32(args.replicas_count)>>, out))
         /\ pc' = "done"
         /\ result' = IF out = "ok" THEN OkResult
                      ELSE ErrResult("new_k8s_scale_replicas", out)
    /\ UNCHANGED <<svc, op, hooks, tfconfig, args, value>>

(***************************************************************************)
(* Database::new                                                           *)
(***************************************************************************)
\* cloud_provider::Kind
Kind == {"Aws", "Scw", "Gcp"}

\* Option<Box<dyn DatabaseInstanceType>>, an instance type being known by
\* its cloud_provider()
InstanceTypes == {"None"} \cup Kind

\* a validity check that accepts every instance type
check_instance_type_validity_accepting(database_instance_type, database_cloud_provider_kind) ==
    "Ok"

check_instance_type_validity(database_instance_type, database_cloud_provider_kind) ==
    IF database_instance_type # database_cloud_provider_kind
      THEN "DatabaseInstanceTypeMismatchCloudProvider"
      ELSE "Ok"

\* database_instance_type.as_ref().map_or(Ok(()), |i| check_instance_type_validity(..))
instance_type_check(database_instance_type, database_cloud_provider_kind) ==
    IF database_instance_type = "None"
      THEN "Ok"
      ELSE check_instance_type_validity(database_instance_type, database_cloud_provider_kind)

\* a constructor that creates the workspace directory before it looks at the
\* instance type
Database_new_workspace_first ==
    /\ pc = "idle"
    /\ svc.stype = "Database"
    /\ \E cp \in Kind, it \in InstanceTypes, ws \in Outcomes :
         /\ args' = [cloud_provider |-> cp, database_instance_type |-> it, workspace |-> ws]
         /\ op' = "Database_new"
         /\ pc' = "done"
         /\ trace' = Append(trace, Call("fs::workspace_directory", <<"databases/", svc.id>>, <<>>, ws))
         /\ IF ws # "ok"
              THEN result' = ErrResult("InvalidConfig", "Can't create workspace directory")
                   /\ value' = value
              ELSE IF instance_type_check(it, cp) # "Ok"
                THEN result' = ErrResult(instance_type_check(it, cp), cp) /\ value' = value
                ELSE result' = OkResult
                     /\ value' = [database |-> svc, workspace_directory |-> <<"databases/", svc.id>>]
    /\ UNCHANGED <<svc, hooks, tfconfig>>

\* entry: the instance type is checked against C::cloud_provider() first
Database_new ==
    /\ pc = "idle"
    /\ svc.stype = "Database"
    /\ \E cp \in Kind, it \in InstanceTypes, ws \in Outcomes :
         /\ args' = [cloud_provider |-> cp, database_instance_type |-> it, workspace |-> ws]
         /\ op' = "Database_new"
         /\ IF instance_type_check(it, cp) # "Ok"
              THEN pc' = "done" /\ result' = ErrResult(instance_type_check(it, cp), cp)
              ELSE pc' = "new_workspace_directory" /\ result' = result
    /\ UNCHANGED <<svc, trace, hooks, tfconfig, value>>

\* crate::fs::workspace_directory(root, execution_id, "databases/{long_id}"),
\* then Ok(Self { .. })
new_workspace_directory ==
    /\ pc = "new_workspace_directory"
    /\ trace' = Append(trace, Call("fs::workspace_directory", <<"databases/", svc.id>>, <<>>,
                                   args.workspace))
    /\ pc' = "done"
    /\ IF args.workspace # "ok"
         THEN result' = ErrResult("InvalidConfig", "Can't create workspace directory")
              /\ value' = value
         ELSE result' = OkResult
              /\ value' = [database |-> svc, workspace_directory |-> <<"databases/", svc.id>>]
    /\ UNCHANGED <<svc, op, hooks, tfconfig, args>>

(***************************************************************************)
(* get_database_with_invalid_storage_size                                  *)
(***************************************************************************)
\* a panic of the calling thread
PanicResult(what) == [st |-> "panic", ctor |-> what, cause |-> "none"]

\* what a volume says of its storage: no spec/resources/requests at all, a
\* requests map without the "storage" key, a quantity that does not parse,
\* or a size in GiB
VolumeRequests ==
    {[kind |-> k, size |-> 0] : k \in {"none", "no_storage_key", "unparsable"}}
        \cup {[kind |-> "size", size |-> n] : n \in 0..MaxDiskSize}

\* statefulset_volumes: Option<Vec<PersistentVolumeClaim>>
StatefulsetVolumes ==
    {[some |-> FALSE, v |-> <<>>]}
        \cup {[some |-> TRUE, v |-> l] :
                l \in UNION {[1..n -> VolumeRequests] : n \in 0..MaxVolumes}}

\* metadata.name of a listed PVC, "" for None
PvcNames == {"", "pvc1", "pvc2"}

\* .items of the PVC list
PvcLists == {<<>>} \cup {<<p>> : p \in PvcNames} \cup {<<p, "pvc2">> : p \in PvcNames}

\* the database's kube_label_selector(); long_id is known by the id derived from it
kube_label_selector(s) == <<"qovery.com/service-id=", s.id>>

SomeInvalidStorage(s, pvc_name, required) ==
    [some |-> TRUE,
     service_id |-> s.id,
     statefulset_selector |-> kube_label_selector(s),
     invalid_pvcs |-> <<[pvc_name |-> pvc_name, required_disk_size_in_gib |-> required]>>]

NoInvalidStorage == [some |-> FALSE]

get_database_with_invalid_storage_size ==
    /\ pc = "idle"
    /\ svc.stype = "Database"
    /\ \E n \in 0..MaxDiskSize, vols \in StatefulsetVolumes :
         args' = [total_disk_size_in_gb |-> n, statefulset_volumes |-> vols]
    /\ op' = "get_database_with_invalid_storage_size"
    /\ pc' = "gs_statefulset"
    /\ UNCHANGED <<svc, trace, hooks, result, tfconfig, value>>

\* get_service_statefulset_name_and_volumes(..)?, then the choice of the one
\* bound volume and of its storage request
gs_statefulset ==
    /\ pc = "gs_statefulset"
    /\ \E out \in Outcomes :
         /\ trace' = Append(trace, Call("get_service_statefulset_name_and_volumes",
                                        kube_label_selector(svc), <<>>, out))
         /\ LET vols == args.statefulset_volumes IN
            IF out # "ok"
              THEN pc' = "done" /\ result' = ErrResult("propagated", out) /\ value' = value
            ELSE IF ~vols.some \/ Len(vols.v) # 1
              THEN /\ pc' = "done"
                   /\ result' = ErrResult("new_service_missing_storage", "none")
                   /\ value' = value
            ELSE IF vols.v[1].kind = "none"
              THEN pc' = "done" /\ result' = OkResult /\ value' = NoInvalidStorage
            ELSE IF vols.v[1].kind = "no_storage_key"
              THEN /\ pc' = "done"
                   /\ result' = PanicResult("requests[\"storage\"]")
                   /\ value' = value
            ELSE pc' = "gs_extract" /\ result' = result /\ value' = value
    /\ UNCHANGED <<svc, op, hooks, tfconfig, args>>

\* a comparison that lets a smaller request through
gs_extract_accepting_decrease ==
    /\ pc = "gs_extract"
    /\ LET request == args.statefulset_volumes.v[1]
           total == args.total_disk_size_in_gb IN
       \E e \in CmdErrors :
         LET out == IF request.kind = "size" THEN "ok" ELSE e IN
         /\ trace' = Append(trace, Call("extract_volume_size", <<>>, <<>>, out))
         /\ IF out # "ok"
              THEN /\ pc' = "done"
                   /\ result' = ErrResult("new_cannot_parse_string", out)
                   /\ value' = value
            ELSE IF total > request.size
              THEN pc' = "gs_pvcs" /\ result' = result /\ value' = value
            ELSE pc' = "done" /\ result' = OkResult /\ value' = NoInvalidStorage
    /\ UNCHANGED <<svc, op, hooks, tfconfig, args>>

\* extract_volume_size(requests["storage"]) and the two comparisons with
\* total_disk_size_in_gb
gs_extract ==
    /\ pc = "gs_extract"
    /\ LET request == args.statefulset_volumes.v[1]
           total == args.total_disk_size_in_gb IN
       \E e \in CmdErrors :
         LET out == IF request.kind = "size" THEN "ok" ELSE e IN
         /\ trace' = Append(trace, Call("extract_volume_size", <<>>, <<>>, out))
         /\ IF out # "ok"
              THEN /\ pc' = "done"
                   /\ result' = ErrResult("new_cannot_parse_string", out)
                   /\ value' = value
            ELSE IF total > request.size
              THEN pc' = "gs_pvcs" /\ result' = result /\ value' = value
            ELSE IF total < request.size
              THEN /\ pc' = "done"
                   /\ result' = ErrResult("new_invalid_engine_payload", "none")
                   /\ value' = value
            ELSE pc' = "done" /\ result' = OkResult /\ value' = NoInvalidStorage
    /\ UNCHANGED <<svc, op, hooks, tfconfig, args>>

\* a report that asks for the size the volume already has
gs_pvcs_requiring_bound_size ==
    /\ pc = "gs_pvcs"
    /\ \E out \in Outcomes, pvcs \in PvcLists :
         /\ out # "ok" => pvcs = <<>>
         /\ trace' = Append(trace, Call("kube_get_resources_by_selector",
                                        <<"PersistentVolumeClaim", "app=", svc.kube_name>>,
                                        pvcs, out))
         /\ pc' = "done"
         /\ IF out # "ok"
              THEN result' = ErrResult("new_k8s_cannot_get_pvcs", out) /\ value' = value
            ELSE IF pvcs # <<>> /\ pvcs[1] # ""
              THEN /\ result' = OkResult
                   /\ value' = SomeInvalidStorage(svc, pvcs[1],
                                                  args.statefulset_volumes.v[1].size)
            ELSE result' = OkResult /\ value' = NoInvalidStorage
    /\ UNCHANGED <<svc, op, hooks, tfconfig, args>>

\* the request is larger than the volume: list the PVCs of 'app={kube_name}'
\* and report the first one if it has a name; otherwise fall through to Ok(None)
gs_pvcs ==
    /\ pc = "gs_pvcs"
    /\ \E out \in Outcomes, pvcs \in PvcLists :
         /\ out # "ok" => pvcs = <<>>
         /\ trace' = Append(trace, Call("kube_get_resources_by_selector",
                                        <<"PersistentVolumeClaim", "app=", svc.kube_name>>,
                                        pvcs, out))
         /\ pc' = "done"
         /\ IF out # "ok"
              THEN result' = ErrResult("new_k8s_cannot_get_pvcs", out) /\ value' = value
            ELSE IF pvcs # <<>> /\ pvcs[1] # ""
              THEN /\ result' = OkResult
                   /\ value' = SomeInvalidStorage(svc, pvcs[1], args.total_disk_size_in_gb)
            ELSE result' = OkResult /\ value' = NoInvalidStorage
    /\ UNCHANGED <<svc, op, hooks, tfconfig, args>>

(***************************************************************************)
(* fqdn                                                                    *)
(***************************************************************************)
\* the fallback FQDN handed to fqdn()
Fqdns == {<<"db.example.com">>}

\* Service::sanitized_name(): the name usable as a Kubernetes resource name,
\* which the database keeps in kube_name
sanitized_name(s) == s.kube_name

\* Service::fqdn(&self, target, fqdn, is_managed); a formatted string is the
\* tuple of its parts
Service_fqdn(s, fqdn, managed) ==
    IF s.publicly_accessible THEN fqdn
    ELSE IF managed THEN <<s.id, "-dns.", namespace, ".svc.cluster.local">>
    ELSE <<sanitized_name(s), ".", namespace, ".svc.cluster.local">>

\* a database FQDN built on the display name
Database_fqdn_from_name(s, fqdn) ==
    IF s.publicly_accessible THEN fqdn
    ELSE IF is_managed(s.mode) THEN <<s.id, "-dns.", namespace, ".svc.cluster.local">>
    ELSE <<s.name, ".", namespace, ".svc.cluster.local">>

\* Database::fqdn(&self, target, fqdn)
Database_fqdn(s, fqdn) ==
    IF s.publicly_accessible THEN fqdn
    ELSE IF is_managed(s.mode) THEN <<s.id, "-dns.", namespace, ".svc.cluster.local">>
    ELSE <<s.kube_name, ".", namespace, ".svc.cluster.local">>

\* a call of the trait's fqdn on any service
Service_fqdn_call ==
    /\ pc = "idle"
    /\ \E f \in Fqdns, m \in BOOLEAN :
         /\ args' = [fqdn |-> f, is_managed |-> m]
         /\ value' = [fqdn |-> Service_fqdn(svc, f, m)]
    /\ op' = "Service::fqdn"
    /\ pc' = "done"
    /\ result' = OkResult
    /\ UNCHANGED <<svc, trace, hooks, tfconfig>>

\* a call of the database's own fqdn
Database_fqdn_call ==
    /\ pc = "idle"
    /\ svc.stype = "Database"
    /\ \E f \in Fqdns :
         /\ args' = [fqdn |-> f, is_managed |-> is_managed(svc.mode)]
         /\ value' = [fqdn |-> Database_fqdn(svc, f)]
    /\ op' = "Database::fqdn"
    /\ pc' = "done"
    /\ result' = OkResult
    /\ UNCHANGED <<svc, trace, hooks, tfconfig>>

(***************************************************************************)
(* Database::to_tera_context_for_container                                 *)
(***************************************************************************)
\* the four deny-public-access flags of kubernetes.advanced_settings()
AdvancedSettings ==
    [database_postgresql_deny_public_access : BOOLEAN,
     database_mongodb_deny_public_access : BOOLEAN,
     database_mysql_deny_public_access : BOOLEAN,
     database_redis_deny_public_access : BOOLEAN]

\* a policy lookup that reads the PostgreSQL flag for every engine
cluster_denied_public_access_postgresql_only(settings, db_type) ==
    settings.database_postgresql_deny_public_access

\* match T::db_type() { .. }
cluster_denied_public_access(settings, db_type) ==
    CASE db_type = "PostgreSQL" -> settings.database_postgresql_deny_public_access
      [] db_type = "MongoDB" -> settings.database_mongodb_deny_public_access
      [] db_type = "MySQL" -> settings.database_mysql_deny_public_access
      [] db_type = "Redis" -> settings.database_redis_deny_public_access

container_database_publicly_accessible(s, settings) ==
    ~cluster_denied_public_access(settings, s.db_type) /\ s.publicly_accessible

\* entry, for a containerized database only (impl for Database<C, Container, T>)
to_tera_context_for_container ==
    /\ pc = "idle"
    /\ svc.stype = "Database"
    /\ is_container(svc.mode)
    /\ \E f \in Fqdns, settings \in AdvancedSettings :
         args' = [fqdn |-> f, advanced_settings |-> settings]
    /\ op' = "to_tera_context_for_container"
    /\ pc' = "tc_kubeconfig"
    /\ UNCHANGED <<svc, trace, hooks, result, tfconfig, value>>

tc_kubeconfig == Propagating("tc_kubeconfig", "get_kubeconfig_file", "tc_get_version")

\* self.get_version(event_details)?, then the inserts up to Ok(context)
tc_get_version ==
    /\ pc = "tc_get_version"
    /\ \E r \in HookOutcomes :
         /\ trace' = Append(trace, Call("get_version", <<>>, <<>>, r))
         /\ pc' = "done"
         /\ IF r = "ok"
              THEN /\ result' = OkResult
                   /\ value' = [namespace |-> namespace,
                                fqdn |-> Database_fqdn(svc, args.fqdn),
                                database_id |-> svc.id,
                                publicly_accessible |->
                                    container_database_publicly_accessible(
                                        svc, args.advanced_settings)]
              ELSE result' = ErrResult("propagated", r) /\ value' = value
    /\ UNCHANGED <<svc, op, hooks, tfconfig, args>>

(***************************************************************************)
(* errors::io: the boundary form of errors                                 *)
(***************************************************************************)
\* enum Tag of the boundary
Tag ==
    {
      "Unknown", "InvalidEngineApiInputCannotBeDeserialized", "MissingRequiredEnvVariable",
      "ClusterHasNoWorkerNodes", "ClusterWorkerNodeNotFound", "CannotGetWorkspaceDirectory",
      "UnsupportedInstanceType", "CannotRetrieveClusterConfigFile", "CannotCreateFile",
      "CannotGetClusterNodes", "NotEnoughNodesAvailableToDeployEnvironment",
      "NotEnoughResourcesToDeployEnvironment", "CannotUninstallHelmChart",
      "CannotExecuteK8sVersion", "CannotDetermineK8sMasterVersion",
      "CannotDetermineK8sRequestedUpgradeVersion", "CannotDetermineK8sKubeletWorkerVersion",
      "CannotDetermineK8sKubeProxyVersion", "CannotExecuteK8sApiCustomMetrics",
      "K8sPodDisruptionBudgetInInvalidState", "K8sPodsDisruptionBudgetCannotBeRetrieved",
      "K8sCannotDeletePod", "K8sCannotDeletePvc", "K8sCannotGetCrashLoopingPods",
      "K8sCannotDeleteCompletedJobs", "K8sCannotGetPods",
      "K8sUpgradeDeployedVsRequestedVersionsInconsistency", "K8sScaleReplicas",
      "K8sLoadBalancerConfigurationIssue", "K8sServiceError", "K8sGetLogs", "K8sGetEvents",
      "K8sDescribe", "K8sHistory", "K8sCannotCreateNamespace", "K8sPodIsNotReady",
      "K8sNodeIsNotReadyWithTheRequestedVersion", "K8sNodeIsNotReady", "K8sErrorCopySecret",
      "K8sCannotGetPVCs", "K8sCannotBoundPVC", "K8sCannotGetServices", "K8sCannotOrphanDelete",
      "K8sCannotPVCEdit", "K8sCannotGetStatefulset", "K8sCannotRolloutRestartStatefulset",
      "K8sCannotApplyFromFile", "K8sGetDeploymentError", "K8sDeleteDeploymentError",
      "K8sGetStatefulsetError", "K8sDeleteStatefulsetError", "K8sAddonVersionNotSupported",
      "UnsupportedRegion", "UnsupportedZone", "CannotFindRequiredBinary",
      "SubnetsCountShouldBeEven", "CannotGetOrCreateIamRole",
      "CannotCopyFilesFromDirectoryToDirectory", "CannotPauseClusterTasksAreRunning",
      "CannotPauseManagedDatabase", "TerraformCannotRemoveEntryOut",
      "TerraformErrorWhileExecutingPipeline", "TerraformErrorWhileExecutingDestroyPipeline",
      "TerraformCannotImportResource", "HelmChartsSetupError", "HelmChartsDeployError",
      "HelmChartsUpgradeError", "HelmChartUninstallError", "HelmDeployTimeout",
      "HelmHistoryError", "CannotGetAnyAvailableVPC", "UnsupportedVersion",
      "UnsupportedClusterKind", "NotAllowedInstanceType", "CannotGetSupportedVersions",
      "CannotGetCluster", "NoClusterFound", "OnlyOneClusterExpected",
      "CloudProviderApiMissingInfo", "K8sValidateRequiredCPUandBurstableError",
      "ClientServiceFailedToStart", "ClientServiceFailedToDeployBeforeStart",
      "DatabaseFailedToStartAfterSeveralRetries", "RouterFailedToDeploy",
      "CloudProviderClientInvalidCredentials", "VersionNumberParsingError",
      "NotImplementedError", "TaskCancelled", "BuilderError",
      "BuilderDockerCannotFindAnyDockerfile", "BuilderDockerCannotReadDockerfile",
      "BuilderDockerCannotExtractEnvVarsFromDockerfile",
      "BuilderDockerCannotBuildContainerImage", "BuilderBuildpackInvalidLanguageFormat",
      "BuilderBuildpackCannotBuildContainerImage", "BuilderGetBuildError",
      "BuilderCloningRepositoryError", "DockerError", "DockerPushImageError",
      "DockerPullImageError", "BuilderDockerCannotListImages",
      "ContainerRegistryCannotCreateRepository",
      "ContainerRegistryCannotSetRepositoryLifecycleError",
      "ContainerRegistryCannotGetCredentials", "ContainerRegistryImageDoesntExist",
      "ContainerRegistryImageUnreachableAfterPush",
      "ContainerRegistryRepositoryDoesntExistInRegistry",
      "ContainerRegistryCannotDeleteRepository", "ContainerRegistryCannotDeleteRegistry",
      "ContainerRegistryCannotDeleteImage", "ContainerRegistryInvalidInformation",
      "ContainerRegistryCannotCreateRegistry", "ContainerRegistryRegistryDoesntExist",
      "ContainerRegistryInvalidCredentials", "ContainerRegistryCannotLinkRegistryToCluster",
      "ContainerRegistryCannotSetRepositoryTags", "ContainerRegistryUnknownError",
      "ContainerRegistryRepositoryNameInvalid", "ObjectStorageInvalidBucketName",
      "ObjectStorageCannotEmptyBucket", "ObjectStorageCannotTagBucket",
      "ObjectStorageCannotActivateBucketVersioning", "ObjectStorageCannotDeleteBucket",
      "ObjectStorageQuotaExceeded", "ObjectStorageCannotGetObjectFile",
      "ObjectStorageCannotCreateBucket", "ObjectStorageCannotPutFileIntoBucket",
      "ObjectStorageCannotDeleteFileIntoBucket",
      "KubeconfigFileDoNotPermitToConnectToK8sCluster", "KubeconfigSecurityCheckError",
      "DeleteLocalKubeconfigFileError", "VaultConnectionError",
      "VaultSecretCouldNotBeRetrieved", "VaultSecretCouldNotBeCreatedOrUpdated",
      "VaultSecretCouldNotBeDeleted", "JsonDeserializationError",
      "ClusterSecretsManipulationError", "CannotGetNodeGroupList", "CannotGetNodeGroupInfo",
      "CannotConnectK8sCluster", "NumberOfRequestedMaxNodesIsBelowThanCurrentUsage",
      "DnsProviderInformationError", "CloudProviderInformationError",
      "DnsProviderInvalidCredentials", "DnsProviderInvalidApiUrl", "K8sCannotReachToApi",
      "TerraformUnknownError", "TerraformConfigFileInvalidContent",
      "TerraformCannotDeleteLockFile", "TerraformInitError", "TerraformValidateError",
      "TerraformPlanError", "TerraformApplyError", "TerraformStatelistError",
      "TerraformDestroyError", "TerraformCloudProviderQuotasReached",
      "TerraformCloudProviderActivationRequired", "TerraformInvalidCredentials",
      "TerraformServiceNotActivatedOptInRequired", "TerraformNotEnoughPermissions",
      "TerraformWaitingTimeoutResource", "TerraformAlreadyExistingResource",
      "TerraformWrongState", "TerraformResourceDependencyViolation",
      "TerraformContextUnsupportedParameterValue", "TerraformQoveryConfigMismatch",
      "TerraformInstanceTypeDoesntExist", "TerraformMultipleInterruptsReceived",
      "TerraformAccountBlockedByProvider", "TerraformInstanceVolumeCannotBeReduced",
      "TerraformInvalidCIDRBlock", "TerraformStateLocked",
      "TerraformClusterUnsupportedVersionUpdate",
      "TerraformS3BucketCreationErrorAlreadyOwnedByYou", "CloudProviderGetLoadBalancer",
      "CloudProviderGetLoadBalancerTags", "CloudProviderDeleteLoadBalancer",
      "InvalidEnginePayload", "JobFailure", "DoNotRespectCloudProviderBestPractices",
      "CannotListClusters", "CannotParseString", "CannotDeleteNodeGroup",
      "CannotRestartService", "AwsSdkGetClient", "AwsSdkListRdsInstances",
      "AwsSdkListElasticacheClusters", "AwsSdkListDocDbClusters",
      "AwsCloudwatchRetentionConfigurationError", "AwsSdkListEC2Volumes",
      "AwsSdkDetachEC2Volumes", "AwsSdkListEC2Instances", "Base64DecodeIssue", "CannotReadFile",
      "InvalidJobOutputCannotBeSerialized", "DatabaseError"
    }

\* the arms of `match tag` in From<errors::Tag> for Tag, <<pattern, value>>
TagArms ==
    {
      <<"Unknown","Unknown">>,
      <<"TerraformAccountBlockedByProvider","TerraformAccountBlockedByProvider">>,
      <<"InvalidEngineApiInputCannotBeDeserialized","InvalidEngineApiInputCannotBeDeserialized">>,
      <<"UnsupportedInstanceType","UnsupportedInstanceType">>,
      <<"CannotRetrieveClusterConfigFile","CannotRetrieveClusterConfigFile">>,
      <<"CannotCreateFile","CannotCreateFile">>,
      <<"CannotGetClusterNodes","CannotGetClusterNodes">>,
      <<"NotEnoughNodesAvailableToDeployEnvironment","NotEnoughNodesAvailableToDeployEnvironment">>,
      <<"NotEnoughResourcesToDeployEnvironment","NotEnoughResourcesToDeployEnvironment">>,
      <<"MissingRequiredEnvVariable","MissingRequiredEnvVariable">>,
      <<"ClusterHasNoWorkerNodes","ClusterHasNoWorkerNodes">>,
      <<"ClusterWorkerNodeNotFound","ClusterWorkerNodeNotFound">>,
      <<"CannotGetWorkspaceDirectory","CannotGetWorkspaceDirectory">>,
      <<"CannotUninstallHelmChart","CannotUninstallHelmChart">>,
      <<"CannotExecuteK8sVersion","CannotExecuteK8sVersion">>,
      <<"CannotDetermineK8sMasterVersion","CannotDetermineK8sMasterVersion">>,
      <<"CannotDetermineK8sRequestedUpgradeVersion","CannotDetermineK8sRequestedUpgradeVersion">>,
      <<"CannotDetermineK8sKubeletWorkerVersion","CannotDetermineK8sKubeletWorkerVersion">>,
      <<"CannotDetermineK8sKubeProxyVersion","CannotDetermineK8sKubeProxyVersion">>,
      <<"CannotExecuteK8sApiCustomMetrics","CannotExecuteK8sApiCustomMetrics">>,
      <<"K8sPodDisruptionBudgetInInvalidState","K8sPodDisruptionBudgetInInvalidState">>,
      <<"K8sPodsDisruptionBudgetCannotBeRetrieved","K8sPodsDisruptionBudgetCannotBeRetrieved">>,
      <<"K8sCannotDeletePod","K8sCannotDeletePod">>,
      <<"K8sCannotGetCrashLoopingPods","K8sCannotGetCrashLoopingPods">>,
      <<"K8sCannotDeleteCompletedJobs","K8sCannotDeleteCompletedJobs">>,
      <<"K8sCannotGetPods","K8sCannotGetPods">>,
      <<"K8sUpgradeDeployedVsRequestedVersionsInconsistency","K8sUpgradeDeployedVsRequestedVersionsInconsistency">>,
      <<"K8sScaleReplicas","K8sScaleReplicas">>,
      <<"K8sLoadBalancerConfigurationIssue","K8sLoadBalancerConfigurationIssue">>,
      <<"K8sServiceError","K8sServiceError">>, <<"K8sGetLogs","K8sGetLogs">>,
      <<"K8sGetEvents","K8sGetEvents">>, <<"K8sDescribe","K8sDescribe">>,
      <<"K8sHistory","K8sHistory">>, <<"K8sCannotCreateNamespace","K8sCannotCreateNamespace">>,
      <<"K8sPodIsNotReady","K8sPodIsNotReady">>,
      <<"K8sGetDeploymentError","K8sGetDeploymentError">>,
      <<"K8sDeleteDeploymentError","K8sDeleteDeploymentError">>,
      <<"K8sGetStatefulsetError","K8sGetStatefulsetError">>,
      <<"K8sDeleteStatefulsetError","K8sDeleteStatefulsetError">>,
      <<"CannotFindRequiredBinary","CannotFindRequiredBinary">>,
      <<"SubnetsCountShouldBeEven","SubnetsCountShouldBeEven">>,
      <<"CannotGetOrCreateIamRole","CannotGetOrCreateIamRole">>,
      <<"CannotCopyFilesFromDirectoryToDirectory","CannotCopyFilesFromDirectoryToDirectory">>,
      <<"CannotPauseClusterTasksAreRunning","CannotPauseClusterTasksAreRunning">>,
      <<"TerraformCannotRemoveEntryOut","TerraformCannotRemoveEntryOut">>,
      <<"TerraformErrorWhileExecutingPipeline","TerraformErrorWhileExecutingPipeline">>,
      <<"TerraformErrorWhileExecutingDestroyPipeline","TerraformErrorWhileExecutingDestroyPipeline">>,
      <<"TerraformResourceDependencyViolation","TerraformResourceDependencyViolation">>,
      <<"TerraformClusterUnsupportedVersionUpdate","TerraformClusterUnsupportedVersionUpdate">>,
      <<"HelmChartsSetupError","HelmChartsSetupError">>,
      <<"HelmChartsDeployError","HelmChartsDeployError">>,
      <<"HelmChartsUpgradeError","HelmChartsUpgradeError">>,
      <<"HelmChartUninstallError","HelmChartUninstallError">>,
      <<"HelmHistoryError","HelmHistoryError">>,
      <<"CannotGetAnyAvailableVPC","CannotGetAnyAvailableVPC">>,
      <<"UnsupportedVersion","UnsupportedVersion">>,
      <<"CannotGetSupportedVersions","CannotGetSupportedVersions">>,
      <<"CannotGetCluster","CannotGetCluster">>,
      <<"ObjectStorageCannotCreateBucket","ObjectStorageCannotCreateBucket">>,
      <<"ObjectStorageCannotPutFileIntoBucket","ObjectStorageCannotPutFileIntoBucket">>,
      <<"UnsupportedRegion","UnsupportedRegion">>, <<"UnsupportedZone","UnsupportedZone">>,
      <<"K8sNodeIsNotReadyWithTheRequestedVersion","K8sNodeIsNotReadyWithTheRequestedVersion">>,
      <<"K8sNodeIsNotReady","K8sNodeIsNotReady">>, <<"NoClusterFound","NoClusterFound">>,
      <<"OnlyOneClusterExpected","OnlyOneClusterExpected">>,
      <<"CloudProviderApiMissingInfo","CloudProviderApiMissingInfo">>,
      <<"K8sValidateRequiredCPUandBurstableError","K8sValidateRequiredCPUandBurstableError">>,
      <<"TerraformContextUnsupportedParameterValue","TerraformContextUnsupportedParameterValue">>,
      <<"ClientServiceFailedToStart","ClientServiceFailedToStart">>,
      <<"ClientServiceFailedToDeployBeforeStart","ClientServiceFailedToDeployBeforeStart">>,
      <<"DatabaseFailedToStartAfterSeveralRetries","DatabaseFailedToStartAfterSeveralRetries">>,
      <<"RouterFailedToDeploy","RouterFailedToDeploy">>,
      <<"CloudProviderClientInvalidCredentials","CloudProviderClientInvalidCredentials">>,
      <<"VersionNumberParsingError","VersionNumberParsingError">>,
      <<"NotImplementedError","NotImplementedError">>,
      <<"TaskCancellationRequested","TaskCancelled">>,
      <<"BuilderDockerCannotFindAnyDockerfile","BuilderDockerCannotFindAnyDockerfile">>,
      <<"BuilderDockerCannotReadDockerfile","BuilderDockerCannotReadDockerfile">>,
      <<"BuilderDockerCannotExtractEnvVarsFromDockerfile","BuilderDockerCannotExtractEnvVarsFromDockerfile">>,
      <<"BuilderDockerCannotBuildContainerImage","BuilderDockerCannotBuildContainerImage">>,
      <<"BuilderBuildpackInvalidLanguageFormat","BuilderBuildpackInvalidLanguageFormat">>,
      <<"BuilderBuildpackCannotBuildContainerImage","BuilderBuildpackCannotBuildContainerImage">>,
      <<"BuilderGetBuildError","BuilderGetBuildError">>,
      <<"BuilderCloningRepositoryError","BuilderCloningRepositoryError">>,
      <<"DockerPushImageError","DockerPushImageError">>,
      <<"DockerPullImageError","DockerPullImageError">>,
      <<"ContainerRegistryCannotCreateRepository","ContainerRegistryCannotCreateRepository">>,
      <<"ContainerRegistryCannotSetRepositoryLifecycle","ContainerRegistryCannotSetRepositoryLifecycleError">>,
      <<"ContainerRegistryCannotGetCredentials","ContainerRegistryCannotGetCredentials">>,
      <<"ContainerRegistryCannotDeleteImage","ContainerRegistryCannotDeleteImage">>,
      <<"ContainerRegistryImageDoesntExist","ContainerRegistryImageDoesntExist">>,
      <<"ContainerRegistryImageUnreachableAfterPush","ContainerRegistryImageUnreachableAfterPush">>,
      <<"ContainerRegistryRepositoryDoesntExistInRegistry","ContainerRegistryRepositoryDoesntExistInRegistry">>,
      <<"ContainerRegistryCannotDeleteRepository","ContainerRegistryCannotDeleteRepository">>,
      <<"ContainerRegistryInvalidInformation","ContainerRegistryInvalidInformation">>,
      <<"ContainerRegistryRegistryDoesntExist","ContainerRegistryRegistryDoesntExist">>,
      <<"ContainerRegistryInvalidCredentials","ContainerRegistryInvalidCredentials">>,
      <<"ContainerRegistryCannotLinkRegistryToCluster","ContainerRegistryCannotLinkRegistryToCluster">>,
      <<"ContainerRegistryCannotDeleteRegistry","ContainerRegistryCannotDeleteRegistry">>,
      <<"ContainerRegistryCannotSetRepositoryTags","ContainerRegistryCannotSetRepositoryTags">>,
      <<"ContainerRegistryUnknownError","ContainerRegistryUnknownError">>,
      <<"ContainerRegistryRepositoryNameInvalid","ContainerRegistryRepositoryNameInvalid">>,
      <<"BuilderDockerCannotListImages","BuilderDockerCannotListImages">>,
      <<"DockerError","DockerError">>,
      <<"ObjectStorageInvalidBucketName","ObjectStorageInvalidBucketName">>,
      <<"ObjectStorageCannotEmptyBucket","ObjectStorageCannotEmptyBucket">>,
      <<"ObjectStorageCannotTagBucket","ObjectStorageCannotTagBucket">>,
      <<"ObjectStorageCannotActivateBucketVersioning","ObjectStorageCannotActivateBucketVersioning">>,
      <<"BuilderError","BuilderError">>,
      <<"ContainerRegistryCannotCreateRegistry","ContainerRegistryCannotCreateRegistry">>,
      <<"UnsupportedClusterKind","UnsupportedClusterKind">>,
      <<"NotAllowedInstanceType","NotAllowedInstanceType">>,
      <<"TerraformConfigFileNotFound","TerraformQoveryConfigMismatch">>,
      <<"KubeconfigFileDoNotPermitToConnectToK8sCluster","KubeconfigFileDoNotPermitToConnectToK8sCluster">>,
      <<"KubeconfigSecurityCheckError","KubeconfigSecurityCheckError">>,
      <<"DeleteLocalKubeconfigFileError","DeleteLocalKubeconfigFileError">>,
      <<"VaultConnectionError","VaultConnectionError">>,
      <<"VaultSecretCouldNotBeRetrieved","VaultSecretCouldNotBeRetrieved">>,
      <<"VaultSecretCouldNotBeCreatedOrUpdated","VaultSecretCouldNotBeCreatedOrUpdated">>,
      <<"JsonDeserializationError","JsonDeserializationError">>,
      <<"ClusterSecretsManipulationError","ClusterSecretsManipulationError">>,
      <<"VaultSecretCouldNotBeDeleted","VaultSecretCouldNotBeDeleted">>,
      <<"ObjectStorageCannotDeleteFileIntoBucket","ObjectStorageCannotDeleteFileIntoBucket">>,
      <<"CannotGetNodeGroupList","CannotGetNodeGroupList">>,
      <<"CannotGetNodeGroupInfo","CannotGetNodeGroupInfo">>,
      <<"NumberOfRequestedMaxNodesIsBelowThanCurrentUsage","NumberOfRequestedMaxNodesIsBelowThanCurrentUsage">>,
      <<"CannotConnectK8sCluster","CannotConnectK8sCluster">>,
      <<"DnsProviderInformationError","DnsProviderInformationError">>,
      <<"CloudProviderInformationError","CloudProviderInformationError">>,
      <<"DnsProviderInvalidCredentials","DnsProviderInvalidCredentials">>,
      <<"DnsProviderInvalidApiUrl","DnsProviderInvalidApiUrl">>,
      <<"K8sErrorCopySecret","K8sErrorCopySecret">>,
      <<"K8sCannotReachToApi","K8sCannotReachToApi">>,
      <<"TerraformUnknownError","TerraformUnknownError">>,
      <<"TerraformConfigFileInvalidContent","TerraformConfigFileInvalidContent">>,
      <<"TerraformCannotDeleteLockFile","TerraformCannotDeleteLockFile">>,
      <<"TerraformInitError","TerraformInitError">>,
      <<"TerraformValidateError","TerraformValidateError">>,
      <<"TerraformPlanError","TerraformPlanError">>,
      <<"TerraformApplyError","TerraformApplyError">>,
      <<"TerraformDestroyError","TerraformDestroyError">>,
      <<"TerraformCloudProviderQuotasReached","TerraformCloudProviderQuotasReached">>,
      <<"TerraformCloudProviderActivationRequired","TerraformCloudProviderActivationRequired">>,
      <<"TerraformInvalidCredentials","TerraformInvalidCredentials">>,
      <<"TerraformServiceNotActivatedOptInRequired","TerraformServiceNotActivatedOptInRequired">>,
      <<"TerraformWaitingTimeoutResource","TerraformWaitingTimeoutResource">>,
      <<"TerraformAlreadyExistingResource","TerraformAlreadyExistingResource">>,
      <<"TerraformNotEnoughPermissions","TerraformNotEnoughPermissions">>,
      <<"TerraformWrongState","TerraformWrongState">>,
      <<"TerraformInstanceTypeDoesntExist","TerraformInstanceTypeDoesntExist">>,
      <<"TerraformMultipleInterruptsReceived","TerraformMultipleInterruptsReceived">>,
      <<"TerraformInstanceVolumeCannotBeReduced","TerraformInstanceVolumeCannotBeReduced">>,
      <<"TerraformS3BucketCreationErrorAlreadyOwnedByYou","TerraformS3BucketCreationErrorAlreadyOwnedByYou">>,
      <<"TerraformCannotImportResource","TerraformCannotImportResource">>,
      <<"HelmDeployTimeout","HelmDeployTimeout">>,
      <<"CannotPauseManagedDatabase","CannotPauseManagedDatabase">>,
      <<"ObjectStorageCannotDeleteBucket","ObjectStorageCannotDeleteBucket">>,
      <<"ObjectStorageQuotaExceeded","ObjectStorageQuotaExceeded">>,
      <<"ObjectStorageCannotGetObjectFile","ObjectStorageCannotGetObjectFile">>,
      <<"CloudProviderGetLoadBalancer","CloudProviderGetLoadBalancer">>,
      <<"CloudProviderGetLoadBalancerTags","CloudProviderGetLoadBalancerTags">>,
      <<"K8sCannotDeletePvc","K8sCannotDeletePvc">>,
      <<"CloudProviderDeleteLoadBalancer","CloudProviderDeleteLoadBalancer">>,
      <<"InvalidEnginePayload","InvalidEnginePayload">>, <<"JobFailure","JobFailure">>,
      <<"TerraformInvalidCIDRBlock","TerraformInvalidCIDRBlock">>,
      <<"DoNotRespectCloudProviderBestPractices","DoNotRespectCloudProviderBestPractices">>,
      <<"TerraformStateLocked","TerraformStateLocked">>,
      <<"K8sCannotGetPVCs","K8sCannotGetPVCs">>,
      <<"K8sCannotGetServices","K8sCannotGetServices">>,
      <<"K8sCannotBoundPVC","K8sCannotBoundPVC">>,
      <<"K8sCannotOrphanDelete","K8sCannotOrphanDelete">>,
      <<"K8sCannotPVCEdit","K8sCannotPVCEdit">>,
      <<"K8sCannotGetStatefulset","K8sCannotGetStatefulset">>,
      <<"K8sCannotRolloutRestartStatefulset","K8sCannotRolloutRestartStatefulset">>,
      <<"K8sCannotApplyFromFile","K8sCannotApplyFromFile">>,
      <<"K8sAddonVersionNotSupported","K8sAddonVersionNotSupported">>,
      <<"CannotListClusters","CannotListClusters">>,
      <<"CannotParseString","CannotParseString">>,
      <<"CannotDeleteNodeGroup","CannotDeleteNodeGroup">>,
      <<"CannotRestartService","CannotRestartService">>,
      <<"AwsSdkGetClient","AwsSdkGetClient">>,
      <<"AwsSdkListRdsInstances","AwsSdkListRdsInstances">>,
      <<"AwsSdkListElasticacheClusters","AwsSdkListElasticacheClusters">>,
      <<"AwsSdkListDocDbClusters","AwsSdkListDocDbClusters">>,
      <<"AwsCloudwatchRetentionConfigurationError","AwsCloudwatchRetentionConfigurationError">>,
      <<"AwsSdkListEC2Volumes","AwsSdkListEC2Volumes">>,
      <<"AwsSdkDetachEC2Volumes","AwsSdkDetachEC2Volumes">>,
      <<"AwsSdkListEC2Instances","AwsSdkListEC2Instances">>,
      <<"Base64DecodeIssue","Base64DecodeIssue">>, <<"CannotReadFile","CannotReadFile">>,
      <<"InvalidJobOutputCannotBeSerialized","InvalidJobOutputCannotBeSerialized">>,
      <<"DatabaseError","DatabaseError">>
    }

\* the internal tags: the patterns of the match, which has no wildcard arm
\* and is exhaustive
errors_Tag == {arm[1] : arm \in TagArms}

\* a translation that hands every variant name over as it is
Tag_from_keeping_names(tag) == tag

\* a translation that files a renamed kind under a neighbouring tag
Tag_from_sharing(tag) ==
    IF tag = "TerraformConfigFileNotFound" THEN "TerraformConfigFileInvalidContent"
    ELSE (CHOOSE arm \in TagArms : arm[1] = tag)[2]

\* Tag::from(tag): the value of the arm whose pattern is tag
Tag_from(tag) == (CHOOSE arm \in TagArms : arm[1] = tag)[2]

\* one translation of an internal tag
Tag_from_call ==
    /\ pc = "idle"
    /\ \E tag \in errors_Tag :
         /\ args' = [tag |-> tag]
         /\ value' = [tag |-> Tag_from(tag)]
    /\ op' = "Tag::from"
    /\ pc' = "done"
    /\ result' = OkResult
    /\ UNCHANGED <<svc, trace, hooks, tfconfig>>

\* Option<T>: None, or Some(v) for v in S
None == [some |-> FALSE]

Some(v) == [some |-> TRUE, v |-> v]

Option(S) == {None} \cup {Some(v) : v \in S}

\* Option<String>::unwrap_or_default()
unwrap_or_default(o) == IF o.some THEN o.v ELSE ""

\* the raw, unsafe message an internal CommandError holds beside the safe one
RawMessages == {"raw1"}

\* errors::CommandError
errors_CommandError ==
    [message_safe : {"safe1"}, message_raw : RawMessages,
     full_details : Option({"", "details1"})]

\* a conversion that hands out the raw message
CommandError_from_raw(error) ==
    [message |-> error.message_raw,
     full_details |-> unwrap_or_default(error.full_details)]

\* From<errors::CommandError> for CommandError
CommandError_from(error) ==
    [message |-> error.message_safe,
     full_details |-> unwrap_or_default(error.full_details)]

\* url::Url, known by its serialization
Urls == {[serialization |-> "https://hub.qovery.com/docs"]}

\* Url::to_string()
Url_to_string(url) == url.serialization

\* the internal tags an EngineError is translated with here
SampleTags == {"Unknown", "TaskCancellationRequested", "K8sServiceError"}

EventDetails == {"ed1", "ed2"}

\* errors::EngineError
errors_EngineError ==
    [tag : SampleTags, user_log_message : {"m1"},
     underlying_error : Option(errors_CommandError),
     link : Option(Urls), hint_message : Option({"hint1"}),
     event_details : EventDetails]

\* EngineError::from(error) -> (Self, EventDetails)
EngineError_from(error) ==
    <<[tag |-> Tag_from(error.tag),
       user_log_message |-> error.user_log_message,
       underlying_error |-> IF error.underlying_error.some
                              THEN Some(CommandError_from(error.underlying_error.v))
                              ELSE None,
       link |-> IF error.link.some THEN Some(Url_to_string(error.link.v)) ELSE None,
       hint_message |-> error.hint_message],
      error.event_details>>

\* one translation of an internal EngineError
EngineError_from_call ==
    /\ pc = "idle"
    /\ \E error \in errors_EngineError :
         /\ args' = [error |-> error]
         /\ value' = [io |-> EngineError_from(error)[1],
                      event_details |-> EngineError_from(error)[2]]
    /\ op' = "EngineError::from"
    /\ pc' = "done"
    /\ result' = OkResult
    /\ UNCHANGED <<svc, trace, hooks, tfconfig>>

(***************************************************************************)
(* check_kubernetes_service_error and the debug logs                       *)
(***************************************************************************)
CheckAction == {"Deploy", "Pause", "Delete"}

\* the constructors of the pipeline errors handed to the check
PipelineErrors == {"new_helm_error", "new_k8s_service_issue"}

\* result: Result<(), EngineError>, the error with or without underlying error
PipelineResults ==
    {OkResult} \cup {ErrResult(c, e) : c \in PipelineErrors, e \in {"e1", "none"}}

\* err.underlying_error().unwrap_or_default()
underlying_error_or_default(err) == IF err.cause = "none" THEN "default" ELSE err.cause

\* listeners_helper.{deployment,pause,delete}_in_progress(progress_info)
in_progress(action, level, message) ==
    Call("listeners_helper",
         <<CASE action = "Deploy" -> "deployment_in_progress"
             [] action = "Pause" -> "pause_in_progress"
             [] action = "Delete" -> "delete_in_progress">>,
         <<level>> \o message, "ok")

\* listeners_helper.{deployment,pause,delete}_error(progress_info)
error_progress(action, level, message) ==
    Call("listeners_helper",
         <<CASE action = "Deploy" -> "deployment_error"
             [] action = "Pause" -> "pause_error"
             [] action = "Delete" -> "delete_error">>,
         <<level>> \o message, "ok")

\* logger.log(EngineEvent::level(..))
log(level, message) == Call("logger.log", <<level>>, message, "ok")

\* debug_logs.join("\n"), or the placeholder when there is no line
debug_logs_string(lines) == IF lines # <<>> THEN lines ELSE <<"<no debug logs>">>

\* a check that hands the pipeline's error back as it came
check_kubernetes_service_error_passing_through ==
    /\ pc = "idle"
    /\ \E res \in PipelineResults, action \in CheckAction :
         /\ args' = [result |-> res, action |-> action]
         /\ IF res.st = "ok"
              THEN /\ trace' = <<in_progress(action, "Info", <<"message">>),
                                 log("Info", <<"message">>),
                                 in_progress(action, "Info", <<"succeeded">>)>>
                   /\ pc' = "done"
                   /\ result' = OkResult
              ELSE /\ trace' = <<in_progress(action, "Info", <<"message">>),
                                 log("Info", <<"message">>),
                                 log("Error", <<res.ctor>>),
                                 error_progress(action, "Error", <<"error", res.ctor>>)>>
                   /\ pc' = "done"
                   /\ result' = res
    /\ op' = "check_kubernetes_service_error"
    /\ value' = [lines |-> <<>>]
    /\ UNCHANGED <<svc, hooks, tfconfig>>

\* entry: the in-progress notification, then either the 'succeeded'
\* notification and Ok(()), or the error events up to the call of debug_logs
check_kubernetes_service_error ==
    /\ pc = "idle"
    /\ \E res \in PipelineResults, action \in CheckAction :
         /\ args' = [result |-> res, action |-> action]
         /\ IF res.st = "ok"
              THEN /\ trace' = <<in_progress(action, "Info", <<"message">>),
                                 log("Info", <<"message">>),
                                 in_progress(action, "Info", <<"succeeded">>)>>
                   /\ pc' = "done"
                   /\ result' = OkResult
              ELSE /\ trace' = <<in_progress(action, "Info", <<"message">>),
                                 log("Info", <<"message">>),
                                 log("Error", <<res.ctor>>),
                                 error_progress(action, "Error", <<"error", res.ctor>>)>>
                   /\ pc' = "dbg_kubeconfig"
                   /\ result' = result
    /\ op' = "check_kubernetes_service_error"
    /\ value' = [lines |-> <<>>]
    /\ UNCHANGED <<svc, hooks, tfconfig>>

\* the end of the Err arm once debug_logs has returned `lines`, `calls` being
\* what debug_logs did last
ReturnServiceIssue(calls, lines) ==
    /\ trace' = trace \o calls
                  \o <<log("Debug", debug_logs_string(lines)),
                       error_progress(args.action, "Debug", debug_logs_string(lines))>>
    /\ value' = [lines |-> lines]
    /\ pc' = "done"
    /\ result' = ErrResult("new_k8s_service_issue", underlying_error_or_default(args.result))

\* a collector that keeps the lines gathered before a failing query
CollectorFailed_keeping_lines(c, a, e, ctor) ==
    ReturnServiceIssue(<<Call(c, a, <<>>, e),
                         log("Error", <<"error while retrieving debug logs", ctor>>)>>,
                       value.lines)

\* a query of get_stateless_resource_information_for_user failed: debug_logs
\* logs the error and returns Vec::new()
CollectorFailed(c, a, e, ctor) ==
    ReturnServiceIssue(<<Call(c, a, <<>>, e),
                         log("Error", <<"error while retrieving debug logs", ctor>>)>>,
                       <<>>)

\* one query of the collector that went well and added `lines`
Collected(c, a, lines, next) ==
    /\ trace' = Append(trace, Call(c, a, lines, "ok"))
    /\ value' = [lines |-> value.lines \o lines]
    /\ pc' = next
    /\ result' = result

dbg_kubeconfig ==
    /\ pc = "dbg_kubeconfig"
    /\ \/ \E e \in HookErrors : CollectorFailed("get_kubeconfig_file_path", <<>>, e, "propagated")
       \/ Collected("get_kubeconfig_file_path", <<>>, <<>>, "dbg_logs")
    /\ UNCHANGED <<svc, op, hooks, tfconfig, args>>

\* cmd::kubectl::kubectl_exec_logs
dbg_logs ==
    /\ pc = "dbg_logs"
    /\ \/ \E e \in CmdErrors :
            CollectorFailed("kubectl_exec_logs", selector(svc), e, "new_k8s_get_logs_error")
       \/ \E lines \in {<<>>, <<"log1">>} :
            Collected("kubectl_exec_logs", selector(svc), lines, "dbg_pods")
    /\ UNCHANGED <<svc, op, hooks, tfconfig, args>>

\* kubectl_exec_get_pods and the lines drawn from conditions and last states
dbg_pods ==
    /\ pc = "dbg_pods"
    /\ \/ \E e \in CmdErrors :
            CollectorFailed("kubectl_exec_get_pods", selector(svc), e, "new_k8s_cannot_get_pods")
       \/ \E lines \in {<<>>, <<"condition1">>} :
            Collected("kubectl_exec_get_pods", selector(svc), lines, "dbg_events")
    /\ UNCHANGED <<svc, op, hooks, tfconfig, args>>

\* cmd::kubectl::kubectl_exec_get_json_events, Ok(result), and the rest of
\* the Err arm of the check
dbg_events ==
    /\ pc = "dbg_events"
    /\ \/ \E e \in CmdErrors :
            CollectorFailed("kubectl_exec_get_json_events", namespace, e,
                            "new_k8s_get_json_events")
       \/ \E lines \in {<<>>, <<"event1">>} :
            ReturnServiceIssue(<<Call("kubectl_exec_get_json_events", namespace, lines, "ok")>>,
                               value.lines \o lines)
    /\ UNCHANGED <<svc, op, hooks, tfconfig, args>>

(***************************************************************************)
(* check_service_version                                                   *)
(***************************************************************************)
\* version strings: the one the user requested, the one the check matched
Versions == {"13", "13.4"}

\* result: Result<String, CommandError>
VersionResults ==
    {[st |-> "ok", version |-> v] : v \in Versions} \cup {[st |-> "err", version |-> "none"]}

\* what VersionsNumber::from_str answers for each string
Parsings == [Versions -> {"ok", "e1"}]

\* a version difference reported to the listeners as a deployment error
version_mismatch_events_as_error(requested, version) ==
    <<log("Info", <<"has been requested by the user; but matching version is",
                    requested, version>>),
      error_progress("Deploy", "Error",
                     <<"has been requested by the user; but matching version is",
                       requested, version>>)>>

\* Ok arm, versions differ: logger.log(Info) then deployment_in_progress
version_mismatch_events(requested, version) ==
    <<log("Info", <<"has been requested by the user; but matching version is",
                    requested, version>>),
      in_progress("Deploy", "Info",
                  <<"has been requested by the user; but matching version is",
                    requested, version>>)>>

\* an Err arm that announces the failure as progress first
unsupported_version_events_announcing(requested) ==
    <<in_progress("Deploy", "Info", <<"is not supported!", requested>>),
      error_progress("Deploy", "Error", <<"is not supported!", requested>>),
      log("Error", <<"new_unsupported_version_error">>)>>

\* Err arm: deployment_error(Error-level progress), then logger.log(Error)
unsupported_version_events(requested) ==
    <<error_progress("Deploy", "Error", <<"is not supported!", requested>>),
      log("Error", <<"new_unsupported_version_error">>)>>

from_str(version, parsing) ==
    Call("VersionsNumber::from_str", <<version>>, <<>>, parsing[version])

\* the two VersionsNumber::from_str(..).map_err(..)? of ServiceVersionCheckResult::new
parse_versions(requested, version, parsing) ==
    IF parsing[requested] # "ok" THEN <<from_str(requested, parsing)>>
    ELSE <<from_str(requested, parsing), from_str(version, parsing)>>

\* check_service_version(result, service, event_details, logger) for a
\* service whose version() is `requested`: the calls made, the result, the
\* ServiceVersionCheckResult
check_service_version_run(requested, res, parsing) ==
    IF res.st = "ok"
      THEN LET events == IF requested # res.version
                           THEN version_mismatch_events(requested, res.version)
                           ELSE <<>>
               parses == parse_versions(requested, res.version, parsing)
               last == parses[Len(parses)]
           IN  IF last.out = "ok"
                 THEN [trace |-> events \o parses,
                       result |-> OkResult,
                       value |-> [requested_version |-> <<"VersionsNumber", requested>>,
                                  matched_version |-> <<"VersionsNumber", res.version>>,
                                  message |-> IF requested # res.version
                                                THEN Some(events[1].b)
                                                ELSE None]]
                 ELSE [trace |-> events \o parses,
                       result |-> ErrResult("new_version_number_parsing_error", last.out),
                       value |-> NoValue]
      ELSE [trace |-> unsupported_version_events(requested),
            result |-> ErrResult("new_unsupported_version_error", "none"),
            value |-> NoValue]

\* a call of check_service_version with any version-check result
check_service_version ==
    /\ pc = "idle"
    /\ \E requested \in Versions, res \in VersionResults, parsing \in Parsings :
         LET run == check_service_version_run(requested, res, parsing)
         IN  /\ args' = [version |-> requested, result |-> res, parsing |-> parsing]
             /\ trace' = run.trace
             /\ result' = run.result
             /\ value' = run.value
    /\ op' = "check_service_version"
    /\ pc' = "done"
    /\ UNCHANGED <<svc, hooks, tfconfig>>

\* Database::get_version: fn_version(&self.version).map(|_| self.version.to_string())
\* is handed to check_service_version
Database_get_version ==
    /\ pc = "idle"
    /\ svc.stype = "Database"
    /\ is_container(svc.mode)
    /\ \E requested \in Versions, allowed \in BOOLEAN, parsing \in Parsings :
         LET res == IF allowed THEN [st |-> "ok", version |-> requested]
                               ELSE [st |-> "err", version |-> "none"]
             run == check_service_version_run(requested, res, parsing)
         IN  /\ args' = [version |-> requested, result |-> res, parsing |-> parsing]
             /\ trace' = run.trace
             /\ result' = run.result
             /\ value' = run.value
    /\ op' = "Database::get_version"
    /\ pc' = "done"
    /\ UNCHANGED <<svc, hooks, tfconfig>>

(***************************************************************************)
(* Two pipelines ensuring the namespace of one environment                 *)
(*                                                                         *)
(* A specification of its own (NamespaceSpec).  Its state: `op` and `pc`   *)
(* give each pipeline's function and position, `hooks` each pipeline's     *)
(* locals, `result` each pipeline's result, `args` the execution context,  *)
(* `value` the namespace as the cluster holds it, `trace` the cluster      *)
(* calls in the order the cluster served them.                             *)
(***************************************************************************)
NsPipelines == {"p1", "p2"}

\* service.context().resource_expiration_in_seconds(): Option<u32>
ResourceExpirations == Option({60, 3600})

\* resource_expiration_in_seconds().map(|_| vec![LabelsContent { name: "ttl", value }])
namespace_labels(expiration) ==
    IF expiration.some
      THEN Some({[name |-> "ttl", value |-> ToString(expiration.v)]})
      ELSE None

\* the labels of a namespace created with these labels
labels_of(labels) == IF labels.some THEN labels.v ELSE {}

\* the namespace of the environment in the cluster
NoNamespace == [present |-> FALSE, labels |-> {}]

NsLocals == [labels |-> None, present |-> FALSE, out |-> "none"]

NsInit ==
    /\ svc = [p \in NsPipelines |-> <<"service of", p>>]
    /\ op \in [NsPipelines -> {"deploy_stateless_service", "deploy_stateful_service"}]
    /\ pc = [p \in NsPipelines |-> "ns_labels"]
    /\ hooks = [p \in NsPipelines |-> NsLocals]
    /\ result = [p \in NsPipelines |-> NoResult]
    /\ \E e \in ResourceExpirations : args = [resource_expiration_in_seconds |-> e]
    /\ value \in {NoNamespace,
                  [present |-> TRUE,
                   labels |-> labels_of(
                                 namespace_labels(args.resource_expiration_in_seconds))]}
    /\ trace = <<>>
    /\ tfconfig = [state |-> "none", target_id |-> "none"]

NsStep(p, from, to, locals) ==
    /\ pc[p] = from
    /\ pc' = [pc EXCEPT ![p] = to]
    /\ hooks' = [hooks EXCEPT ![p] = locals]

\* let namespace_labels = ..
ns_labels ==
    \E p \in NsPipelines :
        /\ NsStep(p, "ns_labels", "ns_exists",
                  [hooks[p] EXCEPT !.labels =
                      namespace_labels(args.resource_expiration_in_seconds)])
        /\ UNCHANGED <<svc, op, trace, result, tfconfig, args, value>>

\* create-if-absent: the pipeline first asks whether the namespace is there
ns_exists ==
    \E p \in NsPipelines :
        /\ NsStep(p, "ns_exists", IF value.present THEN "ns_add_labels" ELSE "ns_create",
                  [hooks[p] EXCEPT !.present = value.present])
        /\ trace' = Append(trace, Call("namespace exists", <<p>>, namespace,
                                       IF value.present THEN "present" ELSE "absent"))
        /\ UNCHANGED <<svc, op, result, tfconfig, args, value>>

\* a creation that reports 'already exists' to its caller as a failure
ns_create_strict ==
    \E p \in NsPipelines :
        /\ NsStep(p, "ns_create", IF value.present THEN "ns_return" ELSE "ns_add_labels",
                  [hooks[p] EXCEPT !.out = IF value.present THEN "AlreadyExists" ELSE "none"])
        /\ trace' = Append(trace, Call("create namespace", <<p>>, namespace,
                                       IF value.present THEN "AlreadyExists" ELSE "ok"))
        /\ value' = [value EXCEPT !.present = TRUE]
        /\ UNCHANGED <<svc, op, result, tfconfig, args>>

\* the pipeline found it absent and creates it; the cluster answers
\* 'already exists' when another caller was first, which is tolerated
ns_create ==
    \E p \in NsPipelines :
        /\ NsStep(p, "ns_create", "ns_add_labels", hooks[p])
        /\ trace' = Append(trace, Call("create namespace", <<p>>, namespace,
                                       IF value.present THEN "AlreadyExists" ELSE "ok"))
        /\ value' = [value EXCEPT !.present = TRUE]
        /\ UNCHANGED <<svc, op, result, tfconfig, args>>

\* create-namespace-with-labels: the labels are set on the namespace
ns_add_labels ==
    \E p \in NsPipelines :
        /\ NsStep(p, "ns_add_labels", "ns_return", [hooks[p] EXCEPT !.out = "ok"])
        /\ IF hooks[p].labels.some
             THEN /\ trace' = Append(trace, Call("label namespace", <<p>>, namespace, "ok"))
                  /\ value' = [value EXCEPT !.labels =
                        {l \in value.labels :
                            \A n \in hooks[p].labels.v : n.name # l.name}
                        \cup hooks[p].labels.v]
             ELSE UNCHANGED <<trace, value>>
        /\ UNCHANGED <<svc, op, result, tfconfig, args>>

\* .map_err(|e| EngineError::new_k8s_create_namespace(..))?; the pipeline goes
\* on to Helm::new
ns_return ==
    \E p \in NsPipelines :
        /\ pc[p] = "ns_return"
        /\ IF hooks[p].out = "ok"
             THEN /\ pc' = [pc EXCEPT ![p] = "helm_new"]
                  /\ result' = result
             ELSE /\ pc' = [pc EXCEPT ![p] = "done"]
                  /\ result' = [result EXCEPT ![p] =
                                   ErrResult("new_k8s_create_namespace", hooks[p].out)]
        /\ UNCHANGED <<svc, op, trace, hooks, tfconfig, args, value>>

NsNext ==
    \/ ns_labels
    \/ ns_exists
    \/ ns_create
    \/ ns_add_labels
    \/ ns_return

NamespaceSpec == NsInit /\ [][NsNext]_vars

(***************************************************************************)
(* Workspace directories of two pipelines                                  *)
(*                                                                         *)
(* A specification of its own (WorkspaceSpec).  Its state: `svc` gives     *)
(* each pipeline's service, `args` its execution context, `op` the         *)
(* function it derives its directory with, `pc` its position, `value` the  *)
(* directory it got.                                                       *)
(***************************************************************************)
WsPipelines == {"p1", "p2"}

WsNames == {"n1", "n2"}

ExecutionIds == {"x1", "x2"}

\* Context: workspace_root_dir(), execution_id()
Contexts == [workspace_root_dir : {"root"}, execution_id : ExecutionIds]

WsServices == [id : ServiceIds, name : WsNames, stype : ServiceType]

\* crate::fs::workspace_directory(root, execution_id, dir): the directory
\* derived from the three; a path is the tuple of its components
fs_workspace_directory(workspace_root_dir, execution_id, dir) ==
    <<workspace_root_dir, execution_id>> \o dir

\* Service::workspace_directory(): format!("{}/{}", dir_root, self.name())
Service_workspace_directory(context, s) ==
    fs_workspace_directory(context.workspace_root_dir, context.execution_id,
                           <<DirRoot(s), s.name>>)

\* Database::new: format!("databases/{long_id}")
Database_workspace_directory(context, s) ==
    fs_workspace_directory(context.workspace_root_dir, context.execution_id,
                           <<"databases", s.id>>)

\* an id names one service
WsInit ==
    /\ svc \in [WsPipelines -> WsServices]
    /\ \A p, q \in WsPipelines : svc[p].id = svc[q].id => svc[p] = svc[q]
    /\ args \in [WsPipelines -> Contexts]
    /\ op = [p \in WsPipelines |-> "none"]
    /\ pc = [p \in WsPipelines |-> "idle"]
    /\ value = [p \in WsPipelines |-> None]
    /\ result = NoResult
    /\ trace = <<>>
    /\ hooks = <<>>
    /\ tfconfig = [state |-> "none", target_id |-> "none"]

\* a pipeline asks its service for its workspace directory
ws_service ==
    \E p \in WsPipelines :
        /\ pc[p] = "idle"
        /\ pc' = [pc EXCEPT ![p] = "done"]
        /\ op' = [op EXCEPT ![p] = "Service::workspace_directory"]
        /\ value' = [value EXCEPT ![p] = Some(Service_workspace_directory(args[p], svc[p]))]
        /\ UNCHANGED <<svc, trace, hooks, result, tfconfig, args>>

\* a database is constructed and keeps the directory made by Database::new
ws_database_new ==
    \E p \in WsPipelines :
        /\ pc[p] = "idle"
        /\ svc[p].stype = "Database"
        /\ pc' = [pc EXCEPT ![p] = "done"]
        /\ op' = [op EXCEPT ![p] = "Database::new"]
        /\ value' = [value EXCEPT ![p] = Some(Database_workspace_directory(args[p], svc[p]))]
        /\ UNCHANGED <<svc, trace, hooks, result, tfconfig, args>>

WsNext ==
    \/ ws_service
    \/ ws_database_new

WorkspaceSpec == WsInit /\ [][WsNext]_vars

(***************************************************************************)
(* io_models::router::Router::to_router_domain                             *)
(*                                                                         *)
(* A specification of its own (RouterSpec).  Its state: `svc` is the       *)
(* io_models Router, `args` the cloud provider's kind and kubernetes kind, *)
(* `trace` the call of models::router::Router::new, `result` the returned  *)
(* Result (or the panic), `value` the router built.                        *)
(***************************************************************************)
\* most custom domains a router is given
MaxCustomDomains == 2

\* most routes a router is given
MaxRoutes == 2

\* the sequences over S of at most n elements
SeqUpTo(S, n) == UNION {[1..k -> S] : k \in 0..n}

\* io_models::router::CustomDomain
CustomDomain ==
    [domain : {"a.com", "b.com"}, target_domain : {"t.qovery.io"},
     generate_certificate : BOOLEAN]

\* io_models::router::Route
Route == [path : {"/", "/api"}, service_long_id : {"app-1"}]

\* io_models::router::Router
Routers ==
    [long_id : {"r-1"}, name : {"router"}, kube_name : {"router-r1"},
     action : Action, default_domain : {"r1.qovery.io"}, public_port : {443},
     custom_domains : SeqUpTo(CustomDomain, MaxCustomDomains),
     routes : SeqUpTo(Route, MaxRoutes)]

\* kubernetes::Kind of the cluster
KubernetesKind == {"Eks", "Ec2", "ScwKapsule", "Gke"}

\* self.custom_domains.iter().map(|x| CustomDomain { .. }).collect()
Router_custom_domains(r) ==
    [i \in 1..Len(r.custom_domains) |->
        [domain |-> r.custom_domains[i].domain,
         target_domain |-> r.custom_domains[i].target_domain,
         generate_certificate |-> r.custom_domains[i].generate_certificate]]

\* self.routes.iter().map(|x| Route { .. }).collect()
Router_routes(r) ==
    [i \in 1..Len(r.routes) |->
        [path |-> r.routes[i].path,
         service_long_id |-> r.routes[i].service_long_id]]

\* self.action.to_service_action(): the service action converted from the
\* io_models action by a conversion kept outside this file; the value is the
\* conversion applied to the action, left uninterpreted
to_service_action(action) == <<"to_service_action", action>>

\* the arguments handed to models::router::Router::<T>::new
Router_new_args(T, r) ==
    [T |-> T, long_id |-> r.long_id, name |-> r.name,
     kube_name |-> r.kube_name, action |-> to_service_action(r.action),
     default_domain |-> r.default_domain,
     custom_domains |-> Router_custom_domains(r),
     routes |-> Router_routes(r)]

\* the provider type the match arm builds the router for; "todo" is the arm
\* that holds todo!()
Router_provider_type(kind, kubernetes_kind) ==
    CASE kind = "Aws" /\ kubernetes_kind = "Eks" -> "AWS"
      [] kind = "Aws" /\ kubernetes_kind # "Eks" -> "AWSEc2"
      [] kind = "Scw" -> "SCW"
      [] kind = "Gcp" -> "todo"

RtInit ==
    /\ svc \in Routers
    /\ op = "none"
    /\ pc = "idle"
    /\ args = None
    /\ value = None
    /\ result = NoResult
    /\ trace = <<>>
    /\ hooks = <<>>
    /\ tfconfig = [state |-> "none", target_id |-> "none"]

\* Router::to_router_domain on a provider whose arm builds a router:
\* Router::<T>::new(..)? answers Ok(router) or a RouterError
Router_to_router_domain ==
    \E kind \in Kind, kubernetes_kind \in KubernetesKind, new \in {"ok", "err"} :
        LET T == Router_provider_type(kind, kubernetes_kind)
            built == Router_new_args(T, svc)
        IN  /\ pc = "idle"
            /\ T # "todo"
            /\ op' = "to_router_domain"
            /\ pc' = "done"
            /\ args' = [kind |-> kind, kubernetes_kind |-> kubernetes_kind]
            /\ trace' = <<Call("Router::new", <<T>>, <<built>>, new)>>
            /\ result' = IF new = "ok" THEN OkResult
                         ELSE ErrResult("RouterError", "Router::new")
            /\ value' = IF new = "ok" THEN Some(built) ELSE None
            /\ UNCHANGED <<svc, hooks, tfconfig>>

\* Router::to_router_domain on CPKind::Gcp: the arm is todo!(), the thread
\* panics after the custom domains and routes have been collected
Router_to_router_domain_gcp ==
    \E kind \in Kind, kubernetes_kind \in KubernetesKind :
        /\ pc = "idle"
        /\ Router_provider_type(kind, kubernetes_kind) = "todo"
        /\ op' = "to_router_domain"
        /\ pc' = "done"
        /\ args' = [kind |-> kind, kubernetes_kind |-> kubernetes_kind]
        /\ result' = PanicResult("todo!()")
        /\ value' = None
        /\ UNCHANGED <<svc, trace, hooks, tfconfig>>

RtNext ==
    \/ Router_to_router_domain
    \/ Router_to_router_domain_gcp

RouterSpec == RtInit /\ [][RtNext]_vars

(***************************************************************************)
(* Properties                                                              *)
(***************************************************************************)
Done(name) == op = name /\ pc = "done"

Last == trace[Len(trace)]

Render == "generate_and_copy_all_files_into_dir"

\* every call before position j succeeded
AllOkBefore(j) == \A i \in 1..(j - 1) : trace[i].out = "ok"

ExecOps == {"StatelessService::exec_action", "DatabaseService::exec_action"}

CheckOps == {"StatelessService::exec_check_action", "DatabaseService::exec_check_action"}

LifecycleHookOf == [Create |-> "on_create", Pause |-> "on_pause", Delete |-> "on_delete"]

CheckHookOf ==
    [Create |-> "on_create_check", Pause |-> "on_pause_check", Delete |-> "on_delete_check"]

\* C1: after exec_action / exec_check_action of a stateless or database
\* service, exactly one hook has run, once, it is the hook named by the
\* service's Action, and the call returns that hook's result unchanged; for
\* Action::Nothing no hook has run and the call returns success.
C1_DispatchExact ==
    (pc = "done" /\ op \in ExecOps \cup CheckOps) =>
        IF svc.action = "Nothing"
          THEN hooks = <<>> /\ result = OkResult
          ELSE /\ Len(hooks) = 1
               /\ hooks[1].hook = IF op \in ExecOps THEN LifecycleHookOf[svc.action]
                                  ELSE CheckHookOf[svc.action]
               /\ result = IF hooks[1].out = "ok" THEN OkResult
                           ELSE ErrResult("hook", hooks[1].out)

\* a database dispatch for Delete ran on_delete, which failed, and returned its error
C1_Witness ==
    /\ Done("DatabaseService::exec_action")
    /\ svc.action = "Delete"
    /\ hooks = <<[hook |-> "on_delete", out |-> "h2"]>>
    /\ result = ErrResult("hook", "h2")

\* the step of deploy_stateless_service a recorded call belongs to
\* (0: not one of the five steps)
StatelessStep(t) ==
    CASE t.call = Render -> 1
      [] t.call = "kubectl_exec_create_namespace" -> 2
      [] t.call = "helm.upgrade" -> 3
      [] t.call \in {"kubectl_exec_get_pods", "kubectl_exec_delete_pod"} -> 4
      [] t.call = "kubectl_exec_is_pod_ready_with_retry" -> 5
      [] OTHER -> 0

\* C2: in deploy_stateless_service the calls happen in the order render,
\* ensure namespace, Helm upgrade, delete Pending pods, poll readiness: a step
\* is never followed by an earlier one, a step is reached only through the
\* step before it, the single-call steps happen at most once, and a call is
\* made only when every earlier call of the invocation succeeded.
C2_StatelessOrder ==
    op = "deploy_stateless_service" =>
        /\ \A j \in 1..Len(trace) : AllOkBefore(j)
        /\ \A i, j \in 1..Len(trace) :
             (i < j /\ StatelessStep(trace[i]) > 0 /\ StatelessStep(trace[j]) > 0) =>
                 /\ StatelessStep(trace[i]) <= StatelessStep(trace[j])
                 /\ StatelessStep(trace[i]) = StatelessStep(trace[j])
                      => StatelessStep(trace[i]) = 4
        /\ \A j \in 1..Len(trace) :
             StatelessStep(trace[j]) > 1 =>
                 \E i \in 1..(j - 1) :
                     StatelessStep(trace[i]) = StatelessStep(trace[j]) - 1
        /\ \A i, j \in 1..Len(trace) :
             (trace[i].call = "kubectl_exec_get_pods"
                /\ trace[j].call = "kubectl_exec_get_pods") => i = j
        /\ \A j \in 1..Len(trace) :
             trace[j].call = Render =>
                 /\ trace[j].a = <<"lib_root", "common", "services", "lib_directory_name">>
                 /\ trace[j].b = workspace_directory(svc)

\* a stateless deployment went through all five steps, a Pending pod included
C2_Witness ==
    /\ Done("deploy_stateless_service")
    /\ result = OkResult
    /\ Last.call = "kubectl_exec_is_pod_ready_with_retry"
    /\ \E i \in 1..Len(trace) : trace[i].call = "kubectl_exec_delete_pod"

\* C3: deploy_stateless_service succeeds only if the readiness poll reported
\* the pods ready; every other end of the poll (an error, or an answer that is
\* not 'ready') fails with the pod-not-ready error carrying the poll's error.
C3_SuccessOnlyIfReady ==
    (Done("deploy_stateless_service")
        /\ Len(trace) > 0 /\ Last.call = "kubectl_exec_is_pod_ready_with_retry") =>
        /\ result.st = "ok" <=> Last.out = "Some(true)"
        /\ Last.out # "Some(true)" => result.ctor = "new_k8s_pod_not_ready"
        /\ Last.out \in CmdErrors => result.cause = Last.out

\* C4: when the rendering of the chart fails in deploy_stateless_service the
\* call ends with the cannot-copy-files error whose cause is the render's
\* failure, and the failed render is the last collaborator call: no namespace
\* creation, Helm upgrade, pod listing or deletion, or readiness poll is made.
C4_RenderFailure ==
    op = "deploy_stateless_service" =>
        \A i \in 1..Len(trace) :
            (trace[i].call = Render /\ trace[i].out # "ok") =>
                /\ pc = "done"
                /\ result = ErrResult("new_cannot_copy_files_from_one_directory_to_another",
                                      trace[i].out)
                /\ i = Len(trace)
                /\ \A k \in 1..Len(trace) : StatelessStep(trace[k]) \notin 2..5

\* the render of the chart of a stateless deployment failed with e2
C4_Witness ==
    /\ Done("deploy_stateless_service")
    /\ Len(trace) > 0
    /\ Last = Call(Render, helm_chart_dir(svc), workspace_directory(svc), "e2")
    /\ result.cause = "e2"

Managed(name) == op = name /\ svc.mode = "Managed"

Container(name) == op = name /\ svc.mode = "Container"

HasCall(c) == \E i \in 1..Len(trace) : trace[i].call = c

\* the step of the managed branch of deploy_stateful_service a recorded call
\* belongs to (0: not one of the six steps)
ManagedStep(t) ==
    CASE t.call = Render /\ t.a = <<"lib_root", "cloud", "services", "common">> -> 1
      [] t.call = Render /\ t.a = <<"lib_root", "cloud", "services", "lib_directory_name">> -> 2
      [] t.call = Render /\ t.a = <<"lib_root", "common", "charts", "external-name-svc">> -> 3
      [] t.call = "terraform_init_validate_plan_apply" -> 4
      [] t.call = "get_database_terraform_config" -> 5
      [] t.call = "helm.upgrade" -> 6
      [] OTHER -> 0

\* C5: in the managed branch of deploy_stateful_service the calls happen in
\* the order render shared module, render engine module, render ExternalName
\* chart (into {workspace}/external-name-svc), Terraform, read of
\* database-tf-config.json, Helm upgrade; each happens at most once, only
\* through the step before it and only when every earlier call succeeded; the
\* Helm upgrade needs a config that was read; a Terraform failure ends the call
\* with the Terraform pipeline error and without any Helm upgrade.
C5_ManagedOrder ==
    Managed("deploy_stateful_service") =>
        /\ \A j \in 1..Len(trace) :
             /\ trace[j].call # "helm.upgrade" => AllOkBefore(j)
             /\ trace[j].call = "helm.upgrade" =>
                  AllOkBefore(j - 1) /\ trace[j - 1].out = "Ok"
        /\ \A i, j \in 1..Len(trace) :
             (i < j /\ ManagedStep(trace[i]) > 0 /\ ManagedStep(trace[j]) > 0) =>
                 ManagedStep(trace[i]) < ManagedStep(trace[j])
        /\ \A j \in 1..Len(trace) :
             ManagedStep(trace[j]) > 1 => ManagedStep(trace[j - 1]) = ManagedStep(trace[j]) - 1
        /\ \A j \in 1..Len(trace) :
             ManagedStep(trace[j]) = 3 =>
                 trace[j].b = <<"workspace_root", "execution_id", "databases", svc.name,
                                "external-name-svc">>
        /\ \A j \in 1..Len(trace) :
             (trace[j].call = "terraform_init_validate_plan_apply" /\ trace[j].out # "ok") =>
                 /\ pc = "done"
                 /\ result = ErrResult("new_terraform_error_while_executing_pipeline",
                                       trace[j].out)
                 /\ ~HasCall("helm.upgrade")

\* a managed deployment went through the six steps and the Helm upgrade failed
C5_Witness ==
    /\ Managed("deploy_stateful_service")
    /\ pc = "done"
    /\ Len(trace) > 0
    /\ Last.call = "helm.upgrade"
    /\ Last.out = "e1"
    /\ \E i \in 1..Len(trace) : ManagedStep(trace[i]) = 1

TerraformApplied ==
    \E i \in 1..Len(trace) :
        trace[i].call = "terraform_init_validate_plan_apply" /\ trace[i].out = "ok"

Upgrades == {i \in 1..Len(trace) : trace[i].call = "helm.upgrade"}

ContainerStep(t) ==
    CASE t.call = Render /\ t.a = <<"lib_root", "common", "services", "lib_directory_name">> -> 1
      [] t.call = Render /\ t.a = <<"lib_root", "cloud", "chart_values", "lib_directory_name">> -> 2
      [] t.call = "kubectl_exec_create_namespace" -> 3
      [] t.call = "helm.upgrade" -> 4
      [] t.call \in {"kubectl_exec_get_pods", "kubectl_exec_delete_pod"} -> 5
      [] t.call = "kubectl_exec_is_pod_ready_with_retry" -> 6
      [] OTHER -> 0

FirstRender ==
    IF HasCall(Render)
      THEN CHOOSE i \in 1..Len(trace) :
               trace[i].call = Render /\ \A k \in 1..(i - 1) : trace[k].call # Render
      ELSE Len(trace) + 1

\* the six steps are in order from position `from` of the trace on
ContainerOrderFrom(from) ==
    /\ \A i, j \in from..Len(trace) :
         (i < j /\ ContainerStep(trace[i]) > 0 /\ ContainerStep(trace[j]) > 0) =>
             /\ ContainerStep(trace[i]) <= ContainerStep(trace[j])
             /\ ContainerStep(trace[i]) = ContainerStep(trace[j])
                  => ContainerStep(trace[i]) = 5
    /\ \A j \in from..Len(trace) :
         ContainerStep(trace[j]) > 1 =>
             \E i \in from..(j - 1) : ContainerStep(trace[i]) = ContainerStep(trace[j]) - 1
    /\ \A i, j \in from..Len(trace) :
         (trace[i].call = "kubectl_exec_get_pods"
            /\ trace[j].call = "kubectl_exec_get_pods") => i = j

\* C7 as stated: in the container branch of deploy_stateful_service the
\* steps are render default chart, render value overrides, ensure namespace,
\* Helm upgrade, delete Pending pods, poll readiness, in this order, each only
\* after the previous one succeeded, and no namespace or Helm call precedes
\* the first render.
C7_Original ==
    Container("deploy_stateful_service") =>
        /\ \A j \in 1..Len(trace) : AllOkBefore(j)
        /\ ContainerOrderFrom(1)
        /\ HasCall(Render) =>
             \A k \in 1..(FirstRender - 1) :
                 trace[k].call \notin {"kubectl_exec_create_namespace", "Helm::new",
                                       "helm.upgrade"}

\* C7 amended: the order holds from the first render on, each call is made
\* only after every earlier call succeeded, and no Helm upgrade precedes the
\* first render; but the function has, before branching, already ensured the
\* namespace once and built a Helm client once, so whenever the first render
\* is made exactly one namespace creation and one Helm::new precede it.
C7_ContainerOrder ==
    Container("deploy_stateful_service") =>
        /\ \A j \in 1..Len(trace) : AllOkBefore(j)
        /\ ContainerOrderFrom(FirstRender)
        /\ \A k \in 1..(FirstRender - 1) :
             trace[k].call \notin {"helm.upgrade", "kubectl_exec_get_pods",
                                   "kubectl_exec_delete_pod",
                                   "kubectl_exec_is_pod_ready_with_retry"}
        /\ HasCall(Render) =>
             /\ Cardinality({k \in 1..(FirstRender - 1) :
                               trace[k].call = "kubectl_exec_create_namespace"}) = 1
             /\ Cardinality({k \in 1..(FirstRender - 1) : trace[k].call = "Helm::new"}) = 1

\* a containerized deployment went through all its steps, a Pending pod included
C7_Witness ==
    /\ Container("deploy_stateful_service")
    /\ pc = "done"
    /\ Len(trace) > 0
    /\ Last.call = "kubectl_exec_is_pod_ready_with_retry"
    /\ HasCall("kubectl_exec_delete_pod")
    /\ ContainerStep(trace[FirstRender]) = 1

\* C8: for a containerized database deploy_stateful_service succeeds exactly
\* when the readiness poll answered Ok(Some(true)); any other answer of the
\* poll fails with the database-failed-to-start error, never with the
\* stateless pod-not-ready error, and the error carries a cause exactly when
\* the poll itself returned an error (that error).
C8_ContainerReadiness ==
    (Container("deploy_stateful_service") /\ pc = "done") =>
        /\ result.st = "ok" <=>
             (Len(trace) > 0 /\ Last.call = "kubectl_exec_is_pod_ready_with_retry"
                /\ Last.out = "Some(true)")
        /\ result.ctor # "new_k8s_pod_not_ready"
        /\ (Len(trace) > 0 /\ Last.call = "kubectl_exec_is_pod_ready_with_retry"
              /\ Last.out # "Some(true)") =>
             /\ result.st = "err"
             /\ result.ctor = "new_database_failed_to_start_after_several_retries"
             /\ result.cause = IF Last.out \in {"Some(false)", "None"} THEN "none"
                               ELSE Last.out

\* the poll of a containerized database answered 'not ready' without an error
C8_Witness ==
    /\ Container("deploy_stateful_service")
    /\ pc = "done"
    /\ Len(trace) > 0
    /\ Last.call = "kubectl_exec_is_pod_ready_with_retry"
    /\ Last.out = "Some(false)"
    /\ result = ErrResult("new_database_failed_to_start_after_several_retries", "none")

TerraformCalls == {"terraform_init_validate_plan_apply", "terraform_init_validate_destroy"}

HelmCalls == {"Helm::new", "helm.upgrade", "helm.uninstall"}

\* C9: is_managed_service() is the database's mode (Managed -> true,
\* Container -> false, is_container its negation) and the path taken agrees
\* with it: deploy/delete_stateful_service call Terraform only for a managed
\* database, and a managed call that succeeds has called it; a containerized
\* database never sees Terraform nor the tfstate secret deletion, and its
\* delete makes Helm calls only; a managed deployment never lists or deletes
\* pods nor polls readiness.
C9_ModeDecidesPath ==
    svc.stype = "Database" =>
        /\ is_managed_service(svc) = (svc.mode = "Managed")
        /\ is_container(svc.mode) = (svc.mode = "Container")
        /\ op \in {"deploy_stateful_service", "delete_stateful_service"} =>
             /\ (\E i \in 1..Len(trace) : trace[i].call \in TerraformCalls)
                  => svc.mode = "Managed"
             /\ (svc.mode = "Managed" /\ pc = "done" /\ result.st = "ok") =>
                  \E i \in 1..Len(trace) :
                      /\ trace[i].out = "ok"
                      /\ trace[i].call = IF op = "deploy_stateful_service"
                                           THEN "terraform_init_validate_plan_apply"
                                           ELSE "terraform_init_validate_destroy"
             /\ svc.mode = "Container" =>
                  /\ \A i \in 1..Len(trace) :
                       trace[i].call \notin TerraformCalls \cup {"kubectl_exec_delete_secret"}
                  /\ op = "delete_stateful_service" =>
                       \A i \in 1..Len(trace) :
                           trace[i].call \in HelmCalls \cup {"get_kubeconfig_file_path"}
                  /\ (pc = "done" /\ result.st = "ok") =>
                       HasCall(IF op = "deploy_stateful_service" THEN "helm.upgrade"
                               ELSE "helm.uninstall")
             /\ (svc.mode = "Managed" /\ op = "deploy_stateful_service") =>
                  \A i \in 1..Len(trace) :
                      trace[i].call \notin {"kubectl_exec_get_pods", "kubectl_exec_delete_pod",
                                            "kubectl_exec_is_pod_ready_with_retry"}

\* a managed database was deleted through Terraform destroy
C9_Witness ==
    /\ Managed("delete_stateful_service")
    /\ pc = "done"
    /\ result = OkResult
    /\ HasCall("terraform_init_validate_destroy")

\* a containerized database was deleted through Helm uninstall
C9_WitnessContainer ==
    /\ Container("delete_stateful_service")
    /\ pc = "done"
    /\ result = OkResult
    /\ HasCall("helm.uninstall")

\* C10: when a managed database is deleted, the secret 'tfstate-default-{id}'
\* of that service is deleted only after Terraform destroy succeeded; when
\* destroy fails the call ends with the Terraform destroy-pipeline error and
\* nothing is attempted after the destroy.
C10_SecretAfterDestroy ==
    Managed("delete_stateful_service") =>
        /\ \A j \in 1..Len(trace) :
             trace[j].call = "kubectl_exec_delete_secret" =>
                 /\ trace[j].a = <<"tfstate-default-", svc.id>>
                 /\ \E i \in 1..(j - 1) :
                        /\ trace[i].call = "terraform_init_validate_destroy"
                        /\ trace[i].out = "ok"
        /\ \A i \in 1..Len(trace) :
             (trace[i].call = "terraform_init_validate_destroy" /\ trace[i].out # "ok") =>
                 /\ pc = "done"
                 /\ result = ErrResult("new_terraform_error_while_executing_destroy_pipeline",
                                       trace[i].out)
                 /\ i = Len(trace)

\* Terraform destroy failed while deleting a managed database
C10_Witness ==
    /\ Managed("delete_stateful_service")
    /\ pc = "done"
    /\ Len(trace) > 0
    /\ Last.call = "terraform_init_validate_destroy"
    /\ Last.out = "e1"
    /\ result.ctor = "new_terraform_error_while_executing_destroy_pipeline"

\* the secret of a managed database was deleted after a successful destroy
C10_WitnessDeleted ==
    /\ Managed("delete_stateful_service")
    /\ pc = "done"
    /\ Len(trace) > 0
    /\ Last = Call("kubectl_exec_delete_secret", get_tfstate_name(svc), namespace, "deleted")

DestroySucceeded ==
    \E i \in 1..Len(trace) :
        trace[i].call = "terraform_init_validate_destroy" /\ trace[i].out = "ok"

\* C11: once Terraform destroy has succeeded, delete_stateful_service returns
\* success whatever becomes of the tfstate secret deletion: the secret deleted,
\* the secret absent, kubectl failing, or no kubeconfig to be had.
C11_SecretBestEffort ==
    (Managed("delete_stateful_service") /\ pc = "done" /\ DestroySucceeded) =>
        /\ result = OkResult
        /\ \/ Last.call = "kubectl_exec_delete_secret"
                /\ Last.out \in {"deleted", "absent", "kubectl_failed"}
           \/ Last.call = "get_kubeconfig_file_path" /\ Last.out # "ok"

\* kubectl failed to delete the secret and the delete still succeeded
C11_Witness ==
    /\ Managed("delete_stateful_service")
    /\ pc = "done"
    /\ DestroySucceeded
    /\ Last.call = "kubectl_exec_delete_secret"
    /\ Last.out = "kubectl_failed"
    /\ result = OkResult

\* no kubeconfig could be obtained and the delete still succeeded
C11_WitnessNoKubeconfig ==
    /\ Managed("delete_stateful_service")
    /\ pc = "done"
    /\ DestroySucceeded
    /\ Last.call = "get_kubeconfig_file_path"
    /\ Last.out # "ok"
    /\ result = OkResult

\* the (source directory, target directory) pairs rendered before position j
RendersBefore(j) ==
    { <<trace[i].a, trace[i].b>> : i \in {k \in 1..(j - 1) : trace[k].call = Render} }

\* the three template sets of a managed database and where they are rendered
ThreeTemplateSets(s) ==
    { <<terraform_common_resource_dir_path(s), workspace_directory(s)>>,
      <<terraform_resource_dir_path(s), workspace_directory(s)>>,
      <<helm_chart_external_name_service_dir(s), external_svc_dir(s)>> }

\* the managed branch of deploy_stateful_service has rendered exactly the three
\* template sets when it calls Terraform apply
C12_DeployRenders ==
    Managed("deploy_stateful_service") =>
        \A j \in 1..Len(trace) :
            trace[j].call = "terraform_init_validate_plan_apply" =>
                RendersBefore(j) = ThreeTemplateSets(svc)

\* C12: deleting a managed database renders the same three template sets as
\* creating it, into the same target directories: the render operations made
\* by delete_stateful_service before Terraform destroy are, as a set of
\* (source, target) pairs, those made by deploy_stateful_service before
\* Terraform apply.
C12_SameRenders ==
    /\ C12_DeployRenders
    /\ Managed("delete_stateful_service") =>
         \A j \in 1..Len(trace) :
             trace[j].call = "terraform_init_validate_destroy" =>
                 RendersBefore(j) = ThreeTemplateSets(svc)

Uninstalls == {i \in 1..Len(trace) : trace[i].call = "helm.uninstall"}

\* C13: delete_stateless_service makes no cluster call other than one Helm
\* uninstall, of the service's own release in the environment's namespace
\* (issued once the kubeconfig and the Helm client are there); it succeeds
\* exactly when that uninstall reports success, and a failure of the uninstall
\* or of the Helm client is returned as a Helm error carrying it.
C13_StatelessDelete ==
    op = "delete_stateless_service" =>
        /\ \A i \in 1..Len(trace) :
             trace[i].call \in {"get_kubeconfig_file_path", "Helm::new", "helm.uninstall"}
        /\ Cardinality(Uninstalls) <= 1
        /\ \A i \in Uninstalls :
             /\ trace[i].a = <<"lib_directory_name", "-", svc.id>>
             /\ trace[i].b = <<"namespace">>
             /\ AllOkBefore(i)
        /\ pc = "done" =>
             /\ result.st = "ok" <=> \E i \in Uninstalls : trace[i].out = "ok"
             /\ (\E i \in 1..Len(trace) : trace[i].call = "Helm::new" /\ trace[i].out = "ok")
                  => Cardinality(Uninstalls) = 1
             /\ (Last.call \in {"Helm::new", "helm.uninstall"} /\ Last.out # "ok") =>
                  result = ErrResult("new_helm_error", Last.out)

\* the uninstall of a stateless service failed and came back as a Helm error
C13_Witness ==
    /\ Done("delete_stateless_service")
    /\ Len(trace) > 0
    /\ Last.call = "helm.uninstall"
    /\ Last.out = "e2"
    /\ result = ErrResult("new_helm_error", "e2")

Scales == {i \in 1..Len(trace) : trace[i].call = "kubectl_exec_scale_replicas_by_selector"}

\* C14: scale_down_database on a managed database returns success at once,
\* for every replicas_count, without any call (no kubeconfig lookup, no scale
\* request); on a containerized database its only cluster request is one scale
\* request, of kind StatefulSet, selector 'databaseId={id}' and the requested
\* count, and a failure of that request comes back as the scale-replicas error.
C14_ScaleDownDatabase ==
    op = "scale_down_database" =>
        /\ svc.mode = "Managed" => (trace = <<>> /\ pc = "done" /\ result = OkResult)
        /\ svc.mode = "Container" =>
             /\ \A i \in 1..Len(trace) :
                  trace[i].call \in {"get_kubeconfig_file_path",
                                     "kubectl_exec_scale_replicas_by_selector"}
             /\ Cardinality(Scales) <= 1
             /\ \A i \in Scales :
                  /\ trace[i].a = <<"Statefulset", "databaseId=", svc.id>>
                  /\ trace[i].b = <<args.replicas_count>>
             /\ pc = "done" =>
                  /\ result.st = "ok" <=> \E i \in Scales : trace[i].out = "ok"
                  /\ trace[1].out = "ok" => Cardinality(Scales) = 1
                  /\ \A i \in Scales :
                       trace[i].out # "ok" =>
                           result = ErrResult("new_k8s_scale_replicas", trace[i].out)

\* a managed database was asked to scale to a positive count and nothing was called
C14_Witness ==
    /\ Done("scale_down_database")
    /\ svc.mode = "Managed"
    /\ args.replicas_count > 0
    /\ trace = <<>>
    /\ result = OkResult

\* the scale request of a containerized database failed
C14_WitnessContainer ==
    /\ Done("scale_down_database")
    /\ svc.mode = "Container"
    /\ Len(trace) = 2
    /\ Last.out = "e1"
    /\ result = ErrResult("new_k8s_scale_replicas", "e1")

\* the instance type given to the constructor is tagged for another provider
Mismatching == args.database_instance_type \notin {"None", args.cloud_provider}

DatabaseExists == "database" \in DOMAIN value

\* C15: constructing a database with an instance type of another cloud
\* provider always fails with DatabaseInstanceTypeMismatchCloudProvider, before
\* the workspace directory is created or anything else is called; with no
\* instance type or a matching one the constructor never fails with that error.
C15_InstanceTypeMismatch ==
    op = "Database_new" =>
        /\ Mismatching =>
             /\ pc = "done"
             /\ trace = <<>>
             /\ result = ErrResult("DatabaseInstanceTypeMismatchCloudProvider",
                                   args.cloud_provider)
             /\ ~DatabaseExists
        /\ ~Mismatching => result.ctor # "DatabaseInstanceTypeMismatchCloudProvider"

\* an Aws database was given a Scw instance type
C15_Witness ==
    /\ Done("Database_new")
    /\ args.cloud_provider = "Aws"
    /\ args.database_instance_type = "Scw"
    /\ trace = <<>>
    /\ result.ctor = "DatabaseInstanceTypeMismatchCloudProvider"

\* a matching instance type passed the check and construction succeeded
C15_WitnessMatching ==
    /\ Done("Database_new")
    /\ args.database_instance_type = args.cloud_provider
    /\ result = OkResult

\* C16: the constructor checks the instance type first and creates the
\* workspace directory second: when both would fail the error is
\* DatabaseInstanceTypeMismatchCloudProvider, when only the workspace directory
\* cannot be created the error is InvalidConfig, and a Database value exists
\* only if both checks passed.
C16_ConstructionOrder ==
    op = "Database_new" =>
        /\ pc = "done" =>
             /\ result.ctor = IF Mismatching THEN "DatabaseInstanceTypeMismatchCloudProvider"
                              ELSE IF args.workspace # "ok" THEN "InvalidConfig"
                              ELSE "none"
             /\ result.st = "ok" <=> (~Mismatching /\ args.workspace = "ok")
        /\ DatabaseExists <=> (pc = "done" /\ ~Mismatching /\ args.workspace = "ok")
        /\ trace # <<>> => ~Mismatching

\* both checks would fail and the mismatch is the one reported
C16_Witness ==
    /\ Done("Database_new")
    /\ Mismatching
    /\ args.workspace # "ok"
    /\ result.ctor = "DatabaseInstanceTypeMismatchCloudProvider"

\* only the workspace directory could not be created
C16_WitnessWorkspace ==
    /\ Done("Database_new")
    /\ ~Mismatching
    /\ args.workspace = "e1"
    /\ result.ctor = "InvalidConfig"
    /\ ~DatabaseExists

StorageCheck == "get_database_with_invalid_storage_size"

\* calls that only read the cluster or parse a string
ReadCalls == {"get_service_statefulset_name_and_volumes", "extract_volume_size",
              "kube_get_resources_by_selector"}

\* the StatefulSet was found with exactly one volume and that volume's storage
\* request is a size
BoundSizeKnown ==
    /\ op = StorageCheck
    /\ Len(trace) >= 1
    /\ trace[1].out = "ok"
    /\ args.statefulset_volumes.some
    /\ Len(args.statefulset_volumes.v) = 1
    /\ args.statefulset_volumes.v[1].kind = "size"

BoundSize == args.statefulset_volumes.v[1].size

PvcCalls == {i \in 1..Len(trace) : trace[i].call = "kube_get_resources_by_selector"}

\* C17: when the requested total_disk_size_in_gb is strictly less than the
\* size of the bound volume, get_database_with_invalid_storage_size fails with
\* the invalid-payload error, and it makes no call that changes the cluster
\* (it does not even list the PVCs).
C17_NoDecrease ==
    op = StorageCheck =>
        /\ \A i \in 1..Len(trace) : trace[i].call \in ReadCalls
        /\ (pc = "done" /\ BoundSizeKnown /\ args.total_disk_size_in_gb < BoundSize) =>
             /\ result = ErrResult("new_invalid_engine_payload", "none")
             /\ PvcCalls = {}
             /\ value = NoValue

\* a request of 1 GiB against a bound volume of 2 GiB was rejected
C17_Witness ==
    /\ Done(StorageCheck)
    /\ svc.mode = "Container"
    /\ BoundSizeKnown
    /\ args.total_disk_size_in_gb = 1
    /\ BoundSize = 2
    /\ result.ctor = "new_invalid_engine_payload"

\* C18 as stated: whenever the requested size is strictly greater than the
\* bound volume's size (and the PVC listing itself succeeded) the function
\* returns a non-empty result naming a PVC together with the requested size.
C18_Original ==
    (Done(StorageCheck) /\ svc.mode = "Container" /\ BoundSizeKnown
        /\ args.total_disk_size_in_gb > BoundSize /\ Last.out = "ok") =>
        /\ result = OkResult
        /\ value.some
        /\ value.invalid_pvcs[1].required_disk_size_in_gib = args.total_disk_size_in_gb

\* C18: when the requested size is strictly greater than the bound volume's
\* size the function lists the PVCs of 'app={kube_name}' once and changes
\* nothing; if the listing succeeds and its first PVC has a name, the result is
\* non-empty and names that PVC with the requested size as required size; if
\* the list is empty or its first PVC has no name the result is Ok(None); if
\* the listing fails the result is the cannot-get-PVCs error.
C18_Increase ==
    (Done(StorageCheck) /\ BoundSizeKnown /\ args.total_disk_size_in_gb > BoundSize) =>
        /\ \A i \in 1..Len(trace) : trace[i].call \in ReadCalls
        /\ PvcCalls = {Len(trace)}
        /\ Last.a = <<"PersistentVolumeClaim", "app=", svc.kube_name>>
        /\ Last.out # "ok" => result = ErrResult("new_k8s_cannot_get_pvcs", Last.out)
        /\ Last.out = "ok" =>
             /\ result = OkResult
             /\ IF Last.b # <<>> /\ Last.b[1] # ""
                  THEN /\ value.some
                       /\ value.statefulset_selector = kube_label_selector(svc)
                       /\ value.invalid_pvcs =
                            <<[pvc_name |-> Last.b[1],
                               required_disk_size_in_gib |-> args.total_disk_size_in_gb]>>
                  ELSE ~value.some

\* a request of 2 GiB against a volume of 1 GiB named the first of two PVCs
C18_Witness ==
    /\ Done(StorageCheck)
    /\ svc.mode = "Container"
    /\ BoundSizeKnown
    /\ args.total_disk_size_in_gb = 2
    /\ BoundSize = 1
    /\ Last.b = <<"pvc1", "pvc2">>
    /\ value.some
    /\ value.invalid_pvcs[1].pvc_name = "pvc1"

\* a larger request found no PVC and reported nothing
C18_WitnessNoPvc ==
    /\ Done(StorageCheck)
    /\ svc.mode = "Container"
    /\ BoundSizeKnown
    /\ args.total_disk_size_in_gb > BoundSize
    /\ Last.out = "ok"
    /\ Last.b = <<>>
    /\ result = OkResult
    /\ ~value.some

\* C19: fqdn returns the fallback FQDN unchanged when the service is publicly
\* accessible, otherwise '{id}-dns.{namespace}.svc.cluster.local' when managed
\* and '{sanitized_name}.{namespace}.svc.cluster.local' when not; the
\* database's own fqdn returns what the generic one returns for the same
\* service, fallback and managed flag.
C19_FqdnDerivation ==
    /\ Done("Service::fqdn") =>
         value.fqdn =
            CASE svc.publicly_accessible -> args.fqdn
              [] ~svc.publicly_accessible /\ args.is_managed ->
                    <<svc.id, "-dns.", namespace, ".svc.cluster.local">>
              [] ~svc.publicly_accessible /\ ~args.is_managed ->
                    <<sanitized_name(svc), ".", namespace, ".svc.cluster.local">>
    /\ Done("Database::fqdn") =>
         /\ args.is_managed = (svc.mode = "Managed")
         /\ value.fqdn = Service_fqdn(svc, args.fqdn, args.is_managed)

\* a private containerized database got its cluster-local name from its own fqdn
C19_Witness ==
    /\ Done("Database::fqdn")
    /\ ~svc.publicly_accessible
    /\ svc.mode = "Container"
    /\ svc.kube_name # svc.name
    /\ value.fqdn = <<svc.kube_name, ".", namespace, ".svc.cluster.local">>

\* a private service asked as managed got the '-dns' name from the generic fqdn
C19_WitnessManaged ==
    /\ Done("Service::fqdn")
    /\ ~svc.publicly_accessible
    /\ args.is_managed
    /\ value.fqdn = <<svc.id, "-dns.", namespace, ".svc.cluster.local">>

\* the deny-public-access flag of the database's own engine
OwnEngineDenies ==
    \/ svc.db_type = "PostgreSQL"
         /\ args.advanced_settings.database_postgresql_deny_public_access
    \/ svc.db_type = "MongoDB" /\ args.advanced_settings.database_mongodb_deny_public_access
    \/ svc.db_type = "MySQL" /\ args.advanced_settings.database_mysql_deny_public_access
    \/ svc.db_type = "Redis" /\ args.advanced_settings.database_redis_deny_public_access

\* C20: the 'publicly_accessible' entry of a containerized database's template
\* context is the database's publicly_accessible AND NOT the cluster's
\* deny-public-access flag of the database's own engine, whatever the flags of
\* the three other engines are.
C20_PubliclyAccessible ==
    (Done("to_tera_context_for_container") /\ result = OkResult) =>
        value.publicly_accessible = (svc.publicly_accessible /\ ~OwnEngineDenies)

\* a public MySQL database stays public although the three other engines are denied
C20_Witness ==
    /\ Done("to_tera_context_for_container")
    /\ result = OkResult
    /\ svc.db_type = "MySQL"
    /\ svc.publicly_accessible
    /\ args.advanced_settings = [database_postgresql_deny_public_access |-> TRUE,
                                 database_mongodb_deny_public_access |-> TRUE,
                                 database_mysql_deny_public_access |-> FALSE,
                                 database_redis_deny_public_access |-> TRUE]
    /\ value.publicly_accessible

\* a public Redis database is rendered private because Redis is denied
C20_WitnessDenied ==
    /\ Done("to_tera_context_for_container")
    /\ result = OkResult
    /\ svc.db_type = "Redis"
    /\ svc.publicly_accessible
    /\ args.advanced_settings.database_redis_deny_public_access
    /\ ~value.publicly_accessible

\* the arms that match an internal tag
ArmsOf(tag) == {arm \in TagArms : arm[1] = tag}

\* the boundary tag of `tag` is the value of no other internal tag
Dedicated(tag) == \A other \in errors_Tag : other # tag => Tag_from(other) # Tag_from(tag)

\* C21: the translation of error kinds is total and never fails: every
\* internal tag is matched by exactly one arm and yields one boundary tag,
\* without a panic; the internal Unknown yields the boundary Unknown; and a
\* kind is never dropped: it yields a boundary tag of its own or else Unknown.
C21_TagTranslationTotal ==
    Done("Tag::from") =>
        /\ result = OkResult
        /\ Cardinality(ArmsOf(args.tag)) = 1
        /\ value.tag \in Tag
        /\ args.tag = "Unknown" => value.tag = "Unknown"
        /\ Dedicated(args.tag) \/ value.tag = "Unknown"

\* the kind that has no boundary tag of its own name was translated
C21_Witness ==
    /\ Done("Tag::from")
    /\ args.tag = "TerraformConfigFileNotFound"
    /\ args.tag \notin Tag
    /\ value.tag = "TerraformQoveryConfigMismatch"

\* the internal Unknown was translated to Unknown
C21_WitnessUnknown ==
    /\ Done("Tag::from")
    /\ args.tag = "Unknown"
    /\ value.tag = "Unknown"

\* C22: the boundary form of an EngineError has the translated tag and the
\* same user_log_message, link and hint, and comes with the same event
\* details; it has an underlying error exactly when the internal error has
\* one, whose message is the internal safe message, never the raw one, and
\* whose full_details is the internal full details, or "" when there are none.
C22_BoundaryForm ==
    Done("EngineError::from") =>
        LET in == args.error
            out == value.io IN
        /\ out.tag = Tag_from(in.tag)
        /\ out.user_log_message = in.user_log_message
        /\ out.link.some = in.link.some
        /\ in.link.some => out.link.v = in.link.v.serialization
        /\ out.hint_message.some = in.hint_message.some
        /\ in.hint_message.some => out.hint_message.v = in.hint_message.v
        /\ value.event_details = in.event_details
        /\ out.underlying_error.some = in.underlying_error.some
        /\ in.underlying_error.some =>
             /\ DOMAIN out.underlying_error.v = {"message", "full_details"}
             /\ out.underlying_error.v.message = in.underlying_error.v.message_safe
             /\ out.underlying_error.v.message # in.underlying_error.v.message_raw
             /\ out.underlying_error.v.full_details =
                  IF in.underlying_error.v.full_details.some
                    THEN in.underlying_error.v.full_details.v
                    ELSE ""

\* an error with an underlying error without full details was translated
C22_Witness ==
    /\ Done("EngineError::from")
    /\ args.error.underlying_error.some
    /\ ~args.error.underlying_error.v.full_details.some
    /\ value.io.underlying_error.v = [message |-> "safe1", full_details |-> ""]

\* an error without underlying error, link or hint was translated
C22_WitnessBare ==
    /\ Done("EngineError::from")
    /\ ~args.error.underlying_error.some
    /\ ~args.error.link.some
    /\ ~value.io.underlying_error.some
    /\ ~value.io.link.some

ServiceCheck == "check_kubernetes_service_error"

\* the check was given a failed pipeline result and has returned
FailedCheckDone == Done(ServiceCheck) /\ args.result.st = "err"

\* the listener events of a level, and the logger events of a level
ListenerEvents(level) ==
    {i \in 1..Len(trace) : trace[i].call = "listeners_helper" /\ trace[i].b[1] = level}

LoggedEvents(level) ==
    {i \in 1..Len(trace) : trace[i].call = "logger.log" /\ trace[i].a = <<level>>}

\* the queries of the diagnostics collector
CollectorCalls ==
    {i \in 1..Len(trace) :
        trace[i].call \in {"get_kubeconfig_file_path", "kubectl_exec_logs",
                           "kubectl_exec_get_pods", "kubectl_exec_get_json_events"}}

CollectorFailure == \E i \in CollectorCalls : trace[i].out # "ok"

\* C23: on a failed pipeline result check_kubernetes_service_error first
\* sends the in-progress notification, then the error-level progress event,
\* then runs the diagnostics collector, then sends one debug-level event with
\* what was collected; when the collector fails or collects nothing that event
\* carries the '<no debug logs>' placeholder, and the function returns the
\* error all the same.
C23_EventOrder ==
    FailedCheckDone =>
        /\ trace[1] = in_progress(args.action, "Info", <<"message">>)
        /\ ListenerEvents("Error") = {4}
        /\ trace[4] = error_progress(args.action, "Error", <<"error", args.result.ctor>>)
        /\ CollectorCalls # {}
        /\ \A i \in CollectorCalls : 4 < i /\ i < Len(trace) - 1
        /\ ListenerEvents("Debug") = {Len(trace)}
        /\ LoggedEvents("Debug") = {Len(trace) - 1}
        /\ Last.a = <<CASE args.action = "Deploy" -> "deployment_error"
                        [] args.action = "Pause" -> "pause_error"
                        [] args.action = "Delete" -> "delete_error">>
        /\ Last.b = <<"Debug">> \o (IF CollectorFailure \/ value.lines = <<>>
                                      THEN <<"<no debug logs>">>
                                      ELSE value.lines)
        /\ trace[Len(trace) - 1].b = Tail(Last.b)
        /\ ~CollectorFailure =>
             value.lines = trace[6].b \o trace[7].b \o trace[8].b
        /\ result.st = "err"

\* the pod query failed after the logs had been read: placeholder, error returned
C23_Witness ==
    /\ FailedCheckDone
    /\ args.action = "Deploy"
    /\ \E i \in CollectorCalls :
         /\ trace[i].call = "kubectl_exec_get_pods" /\ trace[i].out = "e1"
         /\ trace[i - 1].b = <<"log1">>
    /\ Last.b = <<"Debug", "<no debug logs>">>
    /\ result.st = "err"

\* the collector gathered three lines and the debug event carries them
C23_WitnessEvidence ==
    /\ FailedCheckDone
    /\ ~CollectorFailure
    /\ Last.b = <<"Debug", "log1", "condition1", "event1">>

\* C24: the error returned by check_kubernetes_service_error for a failed
\* pipeline carries the tag of the pipeline error it was given, only the
\* underlying detail being flattened.
C24_SameTag ==
    FailedCheckDone =>
        /\ result.st = "err"
        /\ result.ctor = args.result.ctor

VersionCheck == {"check_service_version", "Database::get_version"}

ListenerCalls == {i \in 1..Len(trace) : trace[i].call = "listeners_helper"}

\* C25: when the version check failed, check_service_version sends exactly
\* one listener notification, of level Error and saying the version is not
\* supported, sends no in-progress notification, and returns the
\* unsupported-version error.
C25_UnsupportedVersion ==
    (op \in VersionCheck /\ pc = "done" /\ args.result.st = "err") =>
        /\ Cardinality(ListenerCalls) = 1
        /\ \A i \in ListenerCalls :
             /\ trace[i].a = <<"deployment_error">>
             /\ trace[i].b = <<"Error", "is not supported!", args.version>>
        /\ result = ErrResult("new_unsupported_version_error", "none")
        /\ value = NoValue

\* the engine's allow-list rejected the database's version
C25_Witness ==
    /\ Done("Database::get_version")
    /\ args.result.st = "err"
    /\ args.version = "13.4"
    /\ trace[1] = error_progress("Deploy", "Error", <<"is not supported!", "13.4">>)
    /\ result.ctor = "new_unsupported_version_error"

\* each pipeline's step result in NamespaceSpec
NsPassed(p) == pc[p] = "helm_new"

\* C26: two pipelines of one environment ensuring the namespace, in any
\* interleaving: neither fails at that step, and a pipeline that has passed
\* the step leaves the namespace present, carrying a 'ttl' label exactly when
\* the execution declares a resource expiration (its value the expiration).
C26_NamespaceIdempotent ==
    \A p \in NsPipelines :
        /\ result[p].st # "err"
        /\ pc[p] # "done"
        /\ NsPassed(p) =>
             /\ value.present
             /\ value.labels =
                  IF args.resource_expiration_in_seconds.some
                    THEN {[name |-> "ttl",
                           value |-> ToString(args.resource_expiration_in_seconds.v)]}
                    ELSE {}

\* both pipelines found the namespace absent, one creation was answered
\* 'already exists', and both went on
C26_Witness ==
    /\ \A p \in NsPipelines : NsPassed(p) /\ ~hooks[p].present
    /\ \E i \in 1..Len(trace) :
         trace[i].call = "create namespace" /\ trace[i].out = "AlreadyExists"
    /\ args.resource_expiration_in_seconds = Some(3600)

\* the namespace existed with the same labels and both pipelines went on
C26_WitnessExisting ==
    /\ \A p \in NsPipelines : NsPassed(p) /\ hooks[p].present
    /\ \A i \in 1..Len(trace) : trace[i].call # "create namespace"
    /\ op["p1"] # op["p2"]

\* C27: workspace directories are never shared: two pipelines of different
\* services get different directories whether or not they belong to the same
\* execution, two executions of the same service get different directories,
\* and pipelines that agree on root directory, execution id, kind and name and
\* derive the directory the same way get the same directory.
C27_NeverShared ==
    \A p, q \in WsPipelines :
        (p # q /\ pc[p] = "done" /\ pc[q] = "done") =>
            /\ svc[p].id # svc[q].id => value[p] # value[q]
            /\ (svc[p] = svc[q] /\ args[p].execution_id # args[q].execution_id) =>
                 value[p] # value[q]
            /\ (svc[p] = svc[q] /\ args[p] = args[q] /\ op[p] = op[q]) =>
                 value[p] = value[q]

PipelineOps == {"deploy_stateless_service", "deploy_stateful_service",
                "delete_stateless_service", "delete_stateful_service"}

\* the outcomes of a call that are a failure of that call
FailedOutcomes ==
    CmdErrors \cup HookErrors \cup {"kubectl_failed", "FileDoesntExist", "FileCannotBeParsed"}

FailedCalls == {i \in 1..Len(trace) : trace[i].out \in FailedOutcomes}

\* the readiness poll, the last call, answered that the pods are not ready
NotReady ==
    /\ Last.call = "kubectl_exec_is_pod_ready_with_retry"
    /\ Last.out \in {"Some(false)", "None"}
    /\ FailedCalls = {}

\* one terminal outcome, and nothing after the first failing step
OneOutcome ==
    op \in PipelineOps =>
        /\ FailedCalls \subseteq {Len(trace)}
        /\ FailedCalls # {} => pc = "done"
        /\ pc = "done" <=> result.st \in {"ok", "err"}
        /\ pc # "done" => result = NoResult
        /\ result.st = "err" =>
             /\ Len(trace) > 0
             /\ \/ FailedCalls = {Len(trace)} /\ result.cause = Last.out
                \/ NotReady

C28_WitnessOk ==
    /\ Done("delete_stateless_service")
    /\ FailedCalls = {}
    /\ result = OkResult

DeployOps == {"deploy_stateless_service", "deploy_stateful_service"}

CallsOf(c) == {i \in 1..Len(trace) : trace[i].call = c}

\* C29: in one invocation of deploy_stateless_service or
\* deploy_stateful_service no two render calls read the same template source
\* directory, Helm upgrade is called at most once and Terraform apply at most
\* once, whichever step fails.
C29_NoRetry ==
    op \in DeployOps =>
        /\ \A i, j \in CallsOf("generate_and_copy_all_files_into_dir") :
               trace[i].a = trace[j].a => i = j
        /\ Cardinality(CallsOf("helm.upgrade")) <= 1
        /\ Cardinality(CallsOf("terraform_init_validate_plan_apply")) <= 1

\* the Helm upgrade of a containerized database failed, once, after two
\* renders of two source directories
C29_Witness ==
    /\ Done("deploy_stateful_service")
    /\ Cardinality(CallsOf("generate_and_copy_all_files_into_dir")) = 2
    /\ CallsOf("helm.upgrade") = {Len(trace)}
    /\ Last.out = "e1"
    /\ result.st = "err"

\* a managed deployment rendered three directories, applied Terraform once
\* and upgraded the ExternalName chart once
C29_WitnessManaged ==
    /\ Done("deploy_stateful_service")
    /\ Cardinality(CallsOf("generate_and_copy_all_files_into_dir")) = 3
    /\ Cardinality(CallsOf("terraform_init_validate_plan_apply")) = 1
    /\ Cardinality(CallsOf("helm.upgrade")) = 1
    /\ result = OkResult

\* the pipelines that clean up Pending pods
CleanupOps == {"deploy_stateless_service", "deploy_stateful_service"}

Listings == {i \in 1..Len(trace) : trace[i].call = "kubectl_exec_get_pods"}

Deletions == {i \in 1..Len(trace) : trace[i].call = "kubectl_exec_delete_pod"}

Polls == {i \in 1..Len(trace) : trace[i].call = "kubectl_exec_is_pod_ready_with_retry"}

\* the positions, in the listing at l, of the pods the deletions name
DeletedPods == {trace[d].a[1] : d \in Deletions}

PendingPods(l) == {k \in 1..Len(trace[l].b) : trace[l].b[k] = "Pending"}

\* C33: the cleanup lists the pods of the service's selector right after the
\* Helm upgrade succeeded, then deletes pods of that listing only, each at
\* most once, in listing order, and only pods listed as Pending; once it is
\* over without failure (the readiness poll is reached) the deleted pods are
\* exactly the pods listed as Pending; the poll comes after the last deletion.
C33_PendingOnly ==
    op \in CleanupOps =>
        /\ Cardinality(Listings) <= 1
        /\ Listings = {} => (Deletions = {} /\ Polls = {})
        /\ \A l \in Listings :
             /\ trace[l].a = selector(svc)
             /\ trace[l - 1].call = "helm.upgrade"
             /\ trace[l - 1].out = "ok"
             /\ Deletions = (l + 1)..(l + Cardinality(Deletions))
             /\ DeletedPods \subseteq PendingPods(l)
             /\ \A d, e \in Deletions : d < e => trace[d].a[1] < trace[e].a[1]
             /\ \A d \in Deletions : trace[d].b = <<"Pending">>
             /\ \A r \in Polls :
                  /\ r = l + Cardinality(Deletions) + 1
                  /\ DeletedPods = PendingPods(l)

\* of a Running pod and a Pending pod the second alone was deleted before the poll
C33_Witness ==
    /\ op = "deploy_stateless_service"
    /\ Polls # {}
    /\ \E l \in Listings : trace[l].b = <<"Running", "Pending">>
    /\ DeletedPods = {2}

\* a containerized database with two Pending pods lost both before the poll
C33_WitnessBoth ==
    /\ op = "deploy_stateful_service"
    /\ Polls # {}
    /\ \E l \in Listings : trace[l].b = <<"Pending", "Pending">>
    /\ DeletedPods = {1, 2}

CleanupFailed ==
    \E i \in Listings \cup Deletions : trace[i].out # "ok"

\* C34: when the listing of the pods or the deletion of a Pending pod fails,
\* that call is the last of the pipeline (no later Pending pod is deleted, the
\* readiness is not polled), the pipeline ends with the service-issue error
\* around that failure, and the Helm upgrade had been applied.
C34_CleanupFailureFatal ==
    (op \in CleanupOps /\ CleanupFailed) =>
        /\ pc = "done"
        /\ Last.call \in {"kubectl_exec_get_pods", "kubectl_exec_delete_pod"}
        /\ \A i \in Listings \cup Deletions : trace[i].out # "ok" => i = Len(trace)
        /\ result = ErrResult("new_k8s_service_issue", Last.out)
        /\ Polls = {}
        /\ \E h \in 1..Len(trace) : trace[h].call = "helm.upgrade" /\ trace[h].out = "ok"

\* the first of two Pending pods could not be deleted: the second was left
C34_Witness ==
    /\ Done("deploy_stateless_service")
    /\ \E l \in Listings : trace[l].b = <<"Pending", "Pending">>
    /\ DeletedPods = {1}
    /\ Last.out = "e2"
    /\ result.ctor = "new_k8s_service_issue"

\* the listing itself failed for a containerized database
C34_WitnessListing ==
    /\ Done("deploy_stateful_service")
    /\ Last.call = "kubectl_exec_get_pods"
    /\ Last.out = "e1"
    /\ Deletions = {}
    /\ result = ErrResult("new_k8s_service_issue", "e1")

\* the version check resolved to a version and check_service_version returned
VersionResolved == op \in VersionCheck /\ pc = "done" /\ args.result.st = "ok"

VersionsDiffer == args.version # args.result.version

BothParse ==
    args.parsing[args.version] = "ok" /\ args.parsing[args.result.version] = "ok"

\* C35: when the version check resolved to a version, check_service_version
\* sends one in-progress notification (level Info, naming both versions) if
\* the resolved version differs from the requested one and no notification
\* if they are equal; it returns the requested and the matched version, with
\* that message exactly when they differ, unless a version string does not
\* parse, which is the only error.
C35_VersionDifference ==
    VersionResolved =>
        /\ Cardinality(ListenerCalls) = IF VersionsDiffer THEN 1 ELSE 0
        /\ \A i \in ListenerCalls :
             trace[i] = in_progress("Deploy", "Info",
                           <<"has been requested by the user; but matching version is",
                             args.version, args.result.version>>)
        /\ result.st = "ok" <=> BothParse
        /\ result.st = "ok" =>
             /\ value.requested_version = <<"VersionsNumber", args.version>>
             /\ value.matched_version = <<"VersionsNumber", args.result.version>>
             /\ value.message.some <=> VersionsDiffer
        /\ result.st # "ok" =>
             /\ result.ctor = "new_version_number_parsing_error"
             /\ value = NoValue

\* 13 was requested, 13.4 matched: one notification, a message, no error
C35_Witness ==
    /\ VersionResolved
    /\ op = "check_service_version"
    /\ args.version = "13"
    /\ args.result.version = "13.4"
    /\ Cardinality(ListenerCalls) = 1
    /\ result = OkResult
    /\ value.message.some

\* the versions are equal: no notification, no message
C35_WitnessEqual ==
    /\ VersionResolved
    /\ ~VersionsDiffer
    /\ result = OkResult
    /\ trace # <<>>
    /\ ListenerCalls = {}
    /\ ~value.message.some

\* the queries of the collector in the order of the code
CollectorOrder ==
    <<"get_kubeconfig_file_path", "kubectl_exec_logs", "kubectl_exec_get_pods",
      "kubectl_exec_get_json_events">>

\* C36: check_kubernetes_service_error never runs the diagnostics collector
\* for a successful result, for which it sends the in-progress and the
\* 'succeeded' notification and returns Ok; for a failed result the collector
\* asks for the logs, then the pods, then the events, each only after the
\* query before it succeeded; if a query fails the collected list is empty,
\* the failure is logged right after it, and the error returned is the
\* service-issue error made from the pipeline's error, not the collector's.
C36_CollectorAllOrNothing ==
    op = ServiceCheck =>
        /\ args.result.st = "ok" =>
             /\ CollectorCalls = {}
             /\ pc = "done"
             /\ trace = <<in_progress(args.action, "Info", <<"message">>),
                          log("Info", <<"message">>),
                          in_progress(args.action, "Info", <<"succeeded">>)>>
             /\ result = OkResult
        /\ args.result.st = "err" =>
             /\ \A i \in CollectorCalls :
                  /\ i - 4 \in 1..4
                  /\ trace[i].call = CollectorOrder[i - 4]
                  /\ i > 5 => trace[i - 1].out = "ok"
             /\ pc = "done" =>
                  /\ CollectorCalls # {}
                  /\ result = ErrResult("new_k8s_service_issue",
                                        underlying_error_or_default(args.result))
                  /\ \A i \in CollectorCalls : trace[i].out # "ok" =>
                       /\ value.lines = <<>>
                       /\ trace[i + 1].call = "logger.log"
                       /\ trace[i + 1].a = <<"Error">>
                       /\ trace[i + 1].b[1] = "error while retrieving debug logs"
                       /\ i + 3 = Len(trace)
                  /\ ~CollectorFailure =>
                       (Cardinality(CollectorCalls) = 4 /\ LoggedEvents("Error") = {3})

\* logs and pod conditions were gathered, the events query failed: nothing is kept
C36_Witness ==
    /\ FailedCheckDone
    /\ Cardinality(CollectorCalls) = 4
    /\ trace[6].b = <<"log1">>
    /\ trace[7].b = <<"condition1">>
    /\ trace[8].out = "e2"
    /\ value.lines = <<>>
    /\ result.ctor = "new_k8s_service_issue"

\* a successful pause was checked without any query
C36_WitnessSuccess ==
    /\ Done(ServiceCheck)
    /\ args.result.st = "ok"
    /\ args.action = "Pause"
    /\ Len(trace) = 3
    /\ result = OkResult

\* the boundary name of an internal tag: its own name but for three variants
BoundaryName(tag) ==
    CASE tag = "TaskCancellationRequested" -> "TaskCancelled"
      [] tag = "ContainerRegistryCannotSetRepositoryLifecycle" ->
             "ContainerRegistryCannotSetRepositoryLifecycleError"
      [] tag = "TerraformConfigFileNotFound" -> "TerraformQoveryConfigMismatch"
      [] OTHER -> tag

\* C37: the boundary tag of an internal tag is the variant of the same name,
\* except TaskCancellationRequested -> TaskCancelled,
\* ContainerRegistryCannotSetRepositoryLifecycle ->
\* ContainerRegistryCannotSetRepositoryLifecycleError and
\* TerraformConfigFileNotFound -> TerraformQoveryConfigMismatch, it is a
\* variant of the boundary enum, and no other internal tag is translated to it.
C37_TagTranslationInjective ==
    Done("Tag::from") =>
        /\ value.tag = BoundaryName(args.tag)
        /\ value.tag \in Tag
        /\ \A arm \in TagArms : arm[2] = value.tag => arm[1] = args.tag

\* the missing Terraform config file is reported as a Qovery config mismatch
C37_Witness ==
    /\ Done("Tag::from")
    /\ args.tag = "TerraformConfigFileNotFound"
    /\ value.tag = "TerraformQoveryConfigMismatch"

\* a cancellation request is reported as a cancelled task
C37_WitnessCancelled ==
    /\ Done("Tag::from")
    /\ args.tag = "TaskCancellationRequested"
    /\ value.tag = "TaskCancelled"

\* C38: in the template context of a containerized database, whenever the
\* rendered 'publicly_accessible' is false the rendered 'fqdn' is
\* '{kube_name}.{namespace}.svc.cluster.local', and the fallback FQDN is
\* rendered only when the flag is true.
C38_FqdnFollowsFlag ==
    (Done("to_tera_context_for_container") /\ result = OkResult) =>
        /\ ~value.publicly_accessible =>
             value.fqdn = <<svc.kube_name, ".", namespace, ".svc.cluster.local">>
        /\ value.fqdn = args.fqdn => value.publicly_accessible

\* the StatefulSet was looked up and the check has returned
StorageChecked == Done(StorageCheck) /\ trace[1].out = "ok"

\* exactly one volume is bound
OneVolume == args.statefulset_volumes.some /\ Len(args.statefulset_volumes.v) = 1

\* the one bound volume declares no storage request: it has no requests at
\* all, or requests without the "storage" entry
NoStorageRequest ==
    OneVolume /\ args.statefulset_volumes.v[1].kind \in {"none", "no_storage_key"}

\* C39: get_database_with_invalid_storage_size returns Ok(None) when the
\* requested size equals the bound volume's size and when the bound volume
\* declares no storage request; it fails with the missing-storage error when
\* the StatefulSet has no volume list, an empty one or more than one volume;
\* a size is read and compared only when exactly one volume is bound.
C39_QuietCases ==
    StorageChecked =>
        /\ ~OneVolume <=> result = ErrResult("new_service_missing_storage", "none")
        /\ ~OneVolume => Len(trace) = 1
        /\ NoStorageRequest => (result = OkResult /\ value = NoInvalidStorage)
        /\ (BoundSizeKnown /\ args.total_disk_size_in_gb = BoundSize) =>
             (result = OkResult /\ value = NoInvalidStorage /\ Len(trace) = 2)
        /\ (\E i \in 1..Len(trace) : trace[i].call = "extract_volume_size") => OneVolume

\* C40: Router.to_router_domain returns a result (a RouterService or a
\* RouterError) for every cloud-provider kind and never panics: AWS with an
\* EKS cluster builds the AWS router, AWS with any other cluster kind the
\* AWS-EC2 router, Scaleway the Scaleway router; the built router keeps the
\* long_id, name, kube_name, action, default domain, and every custom domain
\* and route in the same order.
C40_EveryProviderAnswers ==
    Done("to_router_domain") =>
        /\ result.st \in {"ok", "err"}
        /\ result.st = "err" => result.ctor = "RouterError"
        /\ result.st = "ok" =>
            /\ value # None
            /\ LET built == value.v
               IN  /\ args.kind = "Aws" /\ args.kubernetes_kind = "Eks" => built.T = "AWS"
                   /\ args.kind = "Aws" /\ args.kubernetes_kind # "Eks" => built.T = "AWSEc2"
                   /\ args.kind = "Scw" => built.T = "SCW"
                   /\ built.long_id = svc.long_id
                   /\ built.name = svc.name
                   /\ built.kube_name = svc.kube_name
                   /\ built.action = to_service_action(svc.action)
                   /\ built.default_domain = svc.default_domain
                   /\ Len(built.custom_domains) = Len(svc.custom_domains)
                   /\ \A i \in 1..Len(svc.custom_domains) :
                        built.custom_domains[i] = svc.custom_domains[i]
                   /\ Len(built.routes) = Len(svc.routes)
                   /\ \A i \in 1..Len(svc.routes) : built.routes[i] = svc.routes[i]

Init ==
    /\ svc \in Services
    /\ op = "none"
    /\ pc = "idle"
    /\ trace = <<>>
    /\ hooks = <<>>
    /\ result = NoResult
    /\ tfconfig = [state |-> "none", target_id |-> "none"]
    /\ args = NoArgs
    /\ value = NoValue

Next ==
    \/ StatelessService_exec_action
    \/ StatelessService_exec_check_action
    \/ DatabaseService_exec_action
    \/ DatabaseService_exec_check_action
    \/ deploy_stateless_service
    \/ sl_tera_context
    \/ sl_render
    \/ sl_kubeconfig
    \/ sl_namespace
    \/ sl_helm_new
    \/ sl_helm_upgrade
    \/ sl_delete_pending
    \/ sl_poll
    \/ deploy_stateful_service
    \/ sf_tera_context
    \/ sf_kubeconfig
    \/ sf_namespace
    \/ sf_helm_new
    \/ mg_tera_context
    \/ mg_render_common
    \/ mg_render_resource
    \/ mg_render_external
    \/ mg_terraform
    \/ mg_config
    \/ mg_helm_upgrade
    \/ ct_tera_context
    \/ ct_kubeconfig
    \/ ct_render_chart
    \/ ct_render_values
    \/ ct_namespace
    \/ ct_helm_new
    \/ ct_helm_upgrade
    \/ ct_delete_pending
    \/ ct_poll
    \/ delete_stateless_service
    \/ delete_stateful_service
    \/ un_kubeconfig
    \/ un_helm_new
    \/ un_helm_uninstall
    \/ dl_tera_context
    \/ dl_render_common
    \/ dl_render_resource
    \/ dl_render_external
    \/ dl_render_external_ws
    \/ dl_terraform
    \/ dl_secret
    \/ scale_down_database
    \/ sd_kubeconfig
    \/ sd_scale
    \/ Database_new
    \/ new_workspace_directory
    \/ get_database_with_invalid_storage_size
    \/ gs_statefulset
    \/ gs_extract
    \/ gs_pvcs
    \/ Service_fqdn_call
    \/ Database_fqdn_call
    \/ to_tera_context_for_container
    \/ tc_kubeconfig
    \/ tc_get_version
    \/ Tag_from_call
    \/ EngineError_from_call
    \/ check_kubernetes_service_error
    \/ dbg_kubeconfig
    \/ dbg_logs
    \/ dbg_pods
    \/ dbg_events
    \/ check_service_version
    \/ Database_get_version

Spec == Init /\ [][Next]_vars

\* every collaborator call returns and the calling thread goes on: a step that
\* can be taken is taken
FairSpec == Spec /\ WF_vars(Next)
====
